---- MODULE Spec2Model ----
(***************************************************************************)
(* Model of the Sandbox Explorer extension: the change tree provider       *)
(* (src/src/tree.ts), the CLI gateway (src/unnamed/part_001, cli.ts) and   *)
(* the command orchestrator (extension.ts, src/README.md lines 485-894).   *)
(*                                                                         *)
(* Strings that the code inspects character by character (paths, glob      *)
(* patterns) are sequences of one-character strings; strings the code only *)
(* compares as a whole (operation names, labels, command ids) are TLA+     *)
(* strings.  An absent value (undefined / null) of a path-typed field is   *)
(* the sequence Undefined, so that it can be compared with any path.       *)
(***************************************************************************)
EXTENDS Integers, Sequences, FiniteSets, TLC

VARIABLES
    \* ---- tree provider (tree.ts) ----
    workspaceFolders,     \* vscode.workspace.workspaceFolders: Seq of [name, path]
    workspaceFolder,      \* the folder path given to the provider's constructor
    inOverlayRoot,        \* SandboxTreeDataProvider.inOverlayRoot
    hasOriginalWorkspace, \* SandboxTreeDataProvider.hasOriginalWorkspace
    changes,              \* the change list the external tool reports
    statusFails,          \* whether the status query fails (stdout is not JSON)
    element,              \* argument of the last getChildren call
    fetched,              \* working directories of the status queries of that call
    children,             \* result of the last getChildren call
    refreshes,            \* number of onDidChangeTreeData events fired (capped)
    \* ---- pure helpers of tree.ts, applied to the inputs ----
    cwd,                  \* cwd argument of buildDirectoryHierarchy
    groups,               \* result of groupByOperation(changes)
    root,                 \* the Map built by buildDirectoryHierarchy
    hierarchy,            \* result of buildDirectoryHierarchy(changes, cwd)
    applied,              \* the helpers that have been applied to the inputs
    \* ---- diff resolver (extension.ts openDiffForChange) ----
    diffChange,           \* the change entry given to openDiffForChange
    fsReadable,           \* the paths fs.accessSync(p, R_OK) accepts
    diffCall,             \* the vscode.diff invocation made, if any
    diffResult,           \* what openDiffForChange returned
    \* ---- glob matcher (extension.ts globToRegex) ----
    globPattern,          \* the pattern given to globToRegex
    globDestination,      \* the destination the matcher is tested on
    globResult,           \* outcome of globToRegex(pattern).test(destination)
    \* ---- command orchestrator (extension.ts) ----
    globalState,          \* context.globalState: overlay path -> original root
    toolConfig,           \* what the external tool's config reports, per directory
    inflight,             \* the invocations suspended at an await, oldest first
    reload,               \* the folder of a vscode.openFolder not yet in effect
    shown,                \* the last error or warning message shown to the user
    lastUse,              \* history: per overlay path, the workspace root of the most
                          \* recent 'Use Overlay in Explorer' run from a root
    resolution,           \* history: the flags of the context updates whose config call
                          \* has resolved and that have not applied them, in the order
                          \* of resolution, and whether updates applied in that order
    \* ---- CLI gateway (cli.ts) ----
    settings,             \* the 'sandbox' settings section
    cliFunction,          \* the gateway function that is called
    cliPatterns,          \* its patterns argument
    procEnd,              \* how the external process ends: exit code or signal, output
    cliResult,            \* what the gateway function returned or threw
    argv,                 \* the argument vector handed to cp.spawn
    \* ---- error presentation (extension.ts handleCliError) ----
    errText,              \* the message of the error given to handleCliError
    errShown,             \* the text handed to showErrorMessage
    \* ---- mutating commands (extension.ts accept, reject, sync, stop, delete) ----
    running,              \* the command invocation in progress and the await it is at
    trace,                \* what that invocation has done so far: spawn, close, error, refresh
    confirm,              \* the answer to the modal confirmation of that invocation
    \* ---- sandbox.diff (extension.ts) ----
    diffRun,              \* the sandbox.diff invocation in progress and what it has done
    \* ---- terminals and the status bar item (extension.ts activate) ----
    terminals,            \* the terminals the extension host knows, each with state and name
    activeTerminal,       \* vscode.window.activeTerminal; 0 when undefined
    sandboxTerminals,     \* the Set sandboxTerminals
    statusVisible         \* whether the status bar item is shown

provVars == <<workspaceFolders, workspaceFolder, inOverlayRoot, hasOriginalWorkspace,
              changes, statusFails, element, fetched, children, refreshes>>

helpVars == <<cwd, groups, root, hierarchy, applied>>

diffVars == <<diffChange, fsReadable, diffCall, diffResult>>

globVars == <<globPattern, globDestination, globResult>>

orchVars == <<globalState, toolConfig, inflight, reload, shown, lastUse, resolution>>

gateVars == <<settings, cliFunction, cliPatterns, procEnd, cliResult, argv, errText, errShown>>

cmdVars == <<running, trace, confirm>>

diffCmdVars == <<diffRun>>

termVars == <<terminals, activeTerminal, sandboxTerminals, statusVisible>>

vars == <<provVars, helpVars, diffVars, globVars, orchVars, gateVars, cmdVars, diffCmdVars, termVars>>

\* the variables each specification leaves alone
outsideTree == <<helpVars, diffVars, globVars, orchVars, gateVars, cmdVars,
                diffCmdVars, termVars>>

outsideHier == <<diffVars, globVars, orchVars, gateVars, cmdVars,
                diffCmdVars, termVars>>

outsideDiff == <<provVars, helpVars, globVars, orchVars, gateVars, cmdVars,
                diffCmdVars, termVars>>

outsideGlob == <<provVars, helpVars, diffVars, orchVars, gateVars, cmdVars,
                diffCmdVars, termVars>>

outsideUpdate == <<helpVars, diffVars, globVars, gateVars, cmdVars,
                  diffCmdVars, termVars>>

outsideOrch == <<resolution, outsideUpdate>>

outsideGate == <<provVars, helpVars, diffVars, globVars, orchVars, cmdVars,
                diffCmdVars, termVars>>

outsideCmd == <<helpVars, diffVars, globVars, orchVars, diffCmdVars, termVars>>

outsideDiffCmd == <<helpVars, diffVars, globVars, orchVars, cmdVars, termVars>>

outsideTerm == <<provVars, helpVars, diffVars, globVars, orchVars, gateVars, cmdVars,
                 diffCmdVars>>

----------------------------------------------------------------------------
(* Strings as character sequences *)

\* undefined / null of an optional string field
Undefined == <<"undefined">>

\* JavaScript truthiness of an optional string: set and not the empty string
Truthy(s) == s # Undefined /\ s # <<>>

\* String.prototype.startsWith
StartsWith(s, p) == Len(s) >= Len(p) /\ SubSeq(s, 1, Len(p)) = p

\* String.prototype.substring(n): the string without its first n characters
Substring(s, n) == SubSeq(s, n + 1, Len(s))

RECURSIVE SplitAcc(_, _, _, _, _)
SplitAcc(s, sep, i, cur, acc) ==
    IF i > Len(s) THEN Append(acc, cur)
    ELSE IF s[i] = sep THEN SplitAcc(s, sep, i + 1, <<>>, Append(acc, cur))
    ELSE SplitAcc(s, sep, i + 1, Append(cur, s[i]), acc)

\* String.prototype.split(sep) for a one-character separator
Split(s, sep) == SplitAcc(s, sep, 1, <<>>, <<>>)

RECURSIVE Join(_, _)
\* Array.prototype.join(sep)
Join(parts, sep) ==
    IF parts = <<>> THEN <<>>
    ELSE IF Len(parts) = 1 THEN parts[1]
    ELSE parts[1] \o <<sep>> \o Join(Tail(parts), sep)

\* collation order of the characters that occur in path segments
Collation == <<".", "?", "a", "b", "c", "v", "w">>

CharRank(ch) == CHOOSE i \in 1..Len(Collation) : Collation[i] = ch

RECURSIVE LocaleLess(_, _)
\* a.localeCompare(b) < 0 for strings over Collation
LocaleLess(a, b) ==
    IF b = <<>> THEN FALSE
    ELSE IF a = <<>> THEN TRUE
    ELSE IF a[1] = b[1] THEN LocaleLess(Tail(a), Tail(b))
    ELSE CharRank(a[1]) < CharRank(b[1])

RECURSIVE SortKeys(_)
\* the keys of a Map, sorted with localeCompare
SortKeys(S) ==
    IF S = {} THEN <<>>
    ELSE LET least == CHOOSE k \in S : \A j \in S \ {k} : LocaleLess(k, j)
         IN <<least>> \o SortKeys(S \ {least})

RECURSIVE SeqsUpTo(_, _)
\* all sequences over S of length at most n
SeqsUpTo(S, n) ==
    IF n = 0 THEN {<<>>}
    ELSE LET shorter == SeqsUpTo(S, n - 1)
         IN shorter \cup {Append(q, x) : q \in shorter, x \in S}

----------------------------------------------------------------------------
(* Change entries (cli.ts SandboxChangeEntry) *)

ChangeEntry(op, dest, src, stg, tmp) ==
    [destination |-> dest, operation |-> op, source |-> src,
     staged |-> stg, tmp_path |-> tmp]

P_w == <<"/", "w">>
P_v == <<"/", "v">>
P_w_a == <<"/", "w", "/", "a">>
P_w_b == <<"/", "w", "/", "b">>
P_w_b_a == <<"/", "w", "/", "b", "/", "a">>
P_v_a == <<"/", "v", "/", "a">>
P_w_c == <<"/", "w", "/", "c">>
P_w__a == <<"/", "w", "/", "/", "a">>

\* the entries the status query can report in the tree specification
EntryPool ==
    { ChangeEntry("modify", P_w_a, Undefined, Undefined, Undefined),
      ChangeEntry("create", P_w_b_a, Undefined, Undefined, Undefined),
      ChangeEntry("create", P_w_b, Undefined, Undefined, Undefined),
      ChangeEntry("remove", P_v_a, Undefined, Undefined, Undefined),
      ChangeEntry("rename", P_w_a, P_w_c, Undefined, Undefined),
      ChangeEntry("error", P_w_b, Undefined, Undefined, Undefined),
      ChangeEntry("chmod", P_w_a, Undefined, Undefined, Undefined),
      ChangeEntry("link", P_w__a, Undefined, Undefined, Undefined) }

\* longest change list given to the helpers of tree.ts
MaxChanges == 3

ChangeLists == SeqsUpTo(EntryPool, MaxChanges)

\* longest change list the status query reports to getChildren
MaxStatus == 2

StatusLists == SeqsUpTo(EntryPool, MaxStatus)

\* no vscode.diff invocation
NoDiffCall == [called |-> FALSE]

----------------------------------------------------------------------------
(* tree.ts: SandboxNode *)

NoChildren == <<>>

NoCommand == [command |-> "none", arguments |-> <<>>]

\* SandboxNode constructor: contextValue from op, and the sandbox.diff command
\* on nodes that are not collapsible
SandboxNode(label, collapsibleState, targetPath, op) ==
    [label |-> label,
     collapsibleState |-> collapsibleState,
     targetPath |-> targetPath,
     op |-> op,
     contextValue |-> IF op = "folder" THEN "folder"
                      ELSE IF op \in {"actions", "action", "workspace"} THEN op
                      ELSE "change",
     command |-> IF collapsibleState = "None"
                 THEN [command |-> "sandbox.diff",
                       arguments |-> <<IF Truthy(targetPath) THEN <<targetPath>> ELSE <<>>>>]
                 ELSE NoCommand,
     children |-> NoChildren]

\* nodeFromChange: the leaf node of one change entry
nodeFromChange(c) ==
    [SandboxNode(IF c.operation = "rename" /\ Truthy(c.source)
                 THEN <<"rename", c.source, c.destination>>
                 ELSE <<"path", c.destination>>,
                 "None", c.destination, c.operation)
     EXCEPT !.contextValue = "change"]

----------------------------------------------------------------------------
(* tree.ts: groupByOperation *)

RECURSIVE groupByOperationFrom_NewKeyNotPushed(_, _)
\* groupByOperation with the push skipped when the key is new
groupByOperationFrom_NewKeyNotPushed(m, cs) ==
    IF cs = <<>> THEN m
    ELSE LET c == Head(cs)
             key == c.operation
             has == \E i \in 1..Len(m) : m[i].key = key
             m2 == IF has
                   THEN [i \in 1..Len(m) |->
                           IF m[i].key = key
                           THEN [m[i] EXCEPT !.list = Append(@, c)]
                           ELSE m[i]]
                   ELSE Append(m, [key |-> key, list |-> <<>>])
         IN groupByOperationFrom_NewKeyNotPushed(m2, Tail(cs))

RECURSIVE groupByOperationFrom(_, _)
\* the loop of groupByOperation: m is the Map as a sequence of [key, list]
\* in insertion order
groupByOperationFrom(m, cs) ==
    IF cs = <<>> THEN m
    ELSE LET c == Head(cs)
             key == c.operation
             has == \E i \in 1..Len(m) : m[i].key = key
             m1 == IF has THEN m ELSE Append(m, [key |-> key, list |-> <<>>])
             m2 == [i \in 1..Len(m1) |->
                      IF m1[i].key = key
                      THEN [m1[i] EXCEPT !.list = Append(@, c)]
                      ELSE m1[i]]
         IN groupByOperationFrom(m2, Tail(cs))

groupByOperation(cs) == groupByOperationFrom(<<>>, cs)

\* Map.get(op): the list of a key, <<>> when the key is absent
GroupList(m, op) ==
    IF \E i \in 1..Len(m) : m[i].key = op
    THEN m[CHOOSE i \in 1..Len(m) : m[i].key = op].list
    ELSE <<>>

----------------------------------------------------------------------------
(* tree.ts: buildDirectoryHierarchy *)

EmptyMap == [k \in {} |-> 0]

Leaf(c) == [kind |-> "leaf", change |-> c]

Dir(m) == [kind |-> "dir", map |-> m]

\* Map.set(k, v)
MapSet(m, k, v) == [x \in DOMAIN m \cup {k} |-> IF x = k THEN v ELSE m[x]]

\* the path of an entry relative to cwd
RelativePath(c, dir) ==
    IF Truthy(dir) /\ StartsWith(c.destination, dir \o <<"/">>)
    THEN Substring(c.destination, Len(dir) + 1)
    ELSE c.destination

\* the split without the filter of empty segments
PathParts_EmptySegmentsKept(path) == Split(path, "/")

\* path.split('/').filter((p) => p.length > 0)
PathParts(path) == SelectSeq(Split(path, "/"), LAMBDA p : Len(p) > 0)

RECURSIVE InsertChange_FirstWins(_, _, _)
\* an insertion that keeps what a segment already holds when the kinds differ
InsertChange_FirstWins(cursor, parts, c) ==
    IF parts = <<>> THEN cursor
    ELSE LET part == Head(parts)
         IN IF Len(parts) = 1
            THEN IF part \in DOMAIN cursor /\ cursor[part].kind = "dir"
                 THEN cursor
                 ELSE MapSet(cursor, part, Leaf(c))
            ELSE IF part \in DOMAIN cursor /\ cursor[part].kind # "dir"
                 THEN cursor
                 ELSE LET next == IF part \in DOMAIN cursor THEN cursor[part].map
                                  ELSE EmptyMap
                      IN MapSet(cursor, part,
                                Dir(InsertChange_FirstWins(next, Tail(parts), c)))

RECURSIVE InsertChange(_, _, _)
\* the inner loop over parts: the last part is set to the entry, every other
\* part is descended into when it is a Map and replaced by a new Map otherwise
InsertChange(cursor, parts, c) ==
    IF parts = <<>> THEN cursor
    ELSE LET part == Head(parts)
         IN IF Len(parts) = 1
            THEN MapSet(cursor, part, Leaf(c))
            ELSE LET next == IF part \in DOMAIN cursor /\ cursor[part].kind = "dir"
                             THEN cursor[part].map
                             ELSE EmptyMap
                 IN MapSet(cursor, part, Dir(InsertChange(next, Tail(parts), c)))

RECURSIVE BuildRoot(_, _, _)
\* the outer loop over the changes
BuildRoot(m, cs, dir) ==
    IF cs = <<>> THEN m
    ELSE BuildRoot(InsertChange(m, PathParts(RelativePath(Head(cs), dir)), Head(cs)),
                   Tail(cs), dir)

RECURSIVE toNodes(_, _)
\* toNodes: entries sorted by name; a Map becomes a folder node whose command
\* diffs folderPath/**, an entry becomes its leaf node
toNodes(tree, prefix) ==
    LET names == SortKeys(DOMAIN tree)
        nodeOf(name) ==
            IF tree[name].kind = "dir"
            THEN LET folderPath == IF Truthy(prefix) THEN prefix \o <<"/">> \o name ELSE name
                 IN [SandboxNode(<<"path", name>>, "Collapsed", folderPath, "folder")
                     EXCEPT !.command = [command |-> "sandbox.diff",
                                         arguments |-> <<<<folderPath \o <<"/", "*", "*">>>>>>],
                            !.children = toNodes(tree[name].map, folderPath)]
            ELSE nodeFromChange(tree[name].change)
    IN [i \in 1..Len(names) |-> nodeOf(names[i])]

buildDirectoryHierarchy(cs, dir) == toNodes(BuildRoot(EmptyMap, cs, dir), <<>>)

----------------------------------------------------------------------------
(* tree.ts: the pseudo nodes *)

Text(s) == <<"text", s>>

\* makeAction inside buildActionsGroupNode
makeAction(label, command) ==
    [SandboxNode(Text(label), "None", Undefined, "action")
     EXCEPT !.command = [command |-> command, arguments |-> <<>>]]

\* the full action list shown outside the overlay root
FullActions ==
    << makeAction("Enter Sandbox", "sandbox.enter"),
       makeAction("Refresh", "sandbox.refresh"),
       makeAction("Sync", "sandbox.sync"),
       makeAction("Stop", "sandbox.stop"),
       makeAction("Delete", "sandbox.delete"),
       makeAction("Add Overlay as Folder", "sandbox.addOverlayFolder"),
       makeAction("Remove Overlay Folder", "sandbox.removeOverlayFolder"),
       makeAction("Use Overlay in Explorer", "sandbox.useOverlayInExplorer"),
       makeAction("Restore Workspace Folder", "sandbox.restoreWorkspaceFolder"),
       makeAction("Show Config", "sandbox.showConfig") >>

\* the children of the Actions node with the restore action not depending on
\* hasOriginalWorkspace
ActionChildren_RestoreAlways(inOverlay, hasOriginal) ==
    IF inOverlay
    THEN <<makeAction("Enter Sandbox", "sandbox.enter"),
           makeAction("Restore Workspace Folder", "sandbox.restoreWorkspaceFolder")>>
    ELSE FullActions

\* the children of the Actions node
ActionChildren(inOverlay, hasOriginal) ==
    IF inOverlay
    THEN <<makeAction("Enter Sandbox", "sandbox.enter")>>
         \o (IF hasOriginal
             THEN <<makeAction("Restore Workspace Folder", "sandbox.restoreWorkspaceFolder")>>
             ELSE <<>>)
    ELSE FullActions

buildActionsGroupNode(dir, inOverlay, hasOriginal) ==
    [SandboxNode(Text("Actions"), "Expanded", Undefined, "actions")
     EXCEPT !.children = ActionChildren(inOverlay, hasOriginal)]

buildOverlayIndicatorNode == SandboxNode(Text("Overlay active"), "None", Undefined, "info")

\* the node shown when the status query fails
StatusErrorMessage == "Failed to parse sandbox status JSON"

ErrorNode(message) == SandboxNode(Text(message), "None", Undefined, "error")

----------------------------------------------------------------------------
(* tree.ts: getChildren *)

order == <<"error", "remove", "rename", "modify", "create">>

InOrder(op) == \E i \in 1..Len(order) : order[i] = op

\* one collapsible node of an operation group: label `op (n)`
GroupNode(op, list, dir) ==
    [SandboxNode(<<"group", op, Len(list)>>, "Collapsed", Undefined, op)
     EXCEPT !.children = buildDirectoryHierarchy(list, dir)]

\* first loop: the operations of `order` that have entries, in that order
OrderedGroupNodes(m, dir) ==
    LET present == SelectSeq(order, LAMBDA op : Len(GroupList(m, op)) > 0)
    IN [i \in 1..Len(present) |-> GroupNode(present[i], GroupList(m, present[i]), dir)]

\* the second loop without its `if (order.includes(op)) continue`
OtherGroupNodes_NoSkip(m, dir) ==
    [i \in 1..Len(m) |-> GroupNode(m[i].key, m[i].list, dir)]

\* second loop: the remaining keys of the Map in insertion order
OtherGroupNodes(m, dir) ==
    LET rest == SelectSeq(m, LAMBDA g : ~InOrder(g.key))
    IN [i \in 1..Len(rest) |-> GroupNode(rest[i].key, rest[i].list, dir)]

\* the nodes of one folder once the status query has answered
FolderNodes(cs, dir, inOverlay, hasOriginal) ==
    LET m == groupByOperation(cs)
    IN (IF inOverlay THEN <<buildOverlayIndicatorNode>> ELSE <<>>)
       \o <<buildActionsGroupNode(dir, inOverlay, hasOriginal)>>
       \o OrderedGroupNodes(m, dir)
       \o OtherGroupNodes(m, dir)

\* a catch that adds the error node and goes on to the folder's nodes
StatusNodes_ErrorBesideNodes(cs, fails, dir, inOverlay, hasOriginal) ==
    (IF fails THEN <<ErrorNode(StatusErrorMessage)>> ELSE <<>>)
    \o FolderNodes(cs, dir, inOverlay, hasOriginal)

\* try { fetchStatus(cwd) } catch { error node }
StatusNodes(cs, fails, dir, inOverlay, hasOriginal) ==
    IF fails THEN <<ErrorNode(StatusErrorMessage)>>
    ELSE FolderNodes(cs, dir, inOverlay, hasOriginal)

\* a multi-root branch that lists the folders from the last to the first
WorkspaceNodes_Reversed(folders) ==
    [i \in 1..Len(folders) |->
        SandboxNode(Text(folders[Len(folders) + 1 - i].name), "Collapsed",
                    folders[Len(folders) + 1 - i].path, "workspace")]

\* folders.map(...) of the multi-root branch
WorkspaceNodes(folders) ==
    [i \in 1..Len(folders) |->
        SandboxNode(Text(folders[i].name), "Collapsed", folders[i].path, "workspace")]

RootElement == [op |-> "root"]

\* getChildren(element): [nodes, fetched], fetched being the working
\* directories fetchStatus was called with
getChildren(el, folders, wf, inOverlay, hasOriginal, cs, fails) ==
    IF el.op = "root"
    THEN IF Len(folders) <= 1
         THEN LET dir == IF wf # Undefined THEN wf
                         ELSE IF Len(folders) > 0 THEN folders[1].path
                         ELSE Undefined
              IN IF ~Truthy(dir) THEN [nodes |-> <<>>, fetched |-> <<>>]
                 ELSE [nodes |-> StatusNodes(cs, fails, dir, inOverlay, hasOriginal),
                       fetched |-> <<dir>>]
         ELSE [nodes |-> WorkspaceNodes(folders), fetched |-> <<>>]
    ELSE IF el.op = "workspace" /\ Truthy(el.targetPath)
    THEN [nodes |-> StatusNodes(cs, fails, el.targetPath, inOverlay, hasOriginal),
          fetched |-> <<el.targetPath>>]
    ELSE [nodes |-> el.children, fetched |-> <<>>]

----------------------------------------------------------------------------
(* The tree provider under any sequence of calls: SpecTree *)

Folder(name, path) == [name |-> name, path |-> path]

\* the constructor argument and the folder list the provider can meet
ProviderFolders ==
    { [wf |-> Undefined, folders |-> <<>>],
      [wf |-> P_w, folders |-> <<Folder("w", P_w)>>],
      [wf |-> Undefined, folders |-> <<Folder("v", P_v)>>],
      [wf |-> P_w, folders |-> <<Folder("w", P_w), Folder("v", P_v)>>] }

\* ---- the orchestrator's state while the other parts are exercised ----

P_o == <<"/", "o">>
P_u == <<"/", "u">>

\* the directories a window can have as a workspace folder
Paths == {P_w, P_o}

\* the working directories the external tool can be started in
Dirs == Paths \cup {Undefined}

\* SandboxConfigInfo, the fields the orchestrator reads
ConfigInfo(overlay_cwd, upper_cwd) == [overlay_cwd |-> overlay_cwd, upper_cwd |-> upper_cwd]

NoConfigInfo == ConfigInfo(Undefined, Undefined)

\* context.globalState, the entries 'overlayMap:' + path
EmptyGlobalState == [p \in Paths |-> Undefined]

\* no context update has resolved
NoResolution == [queue |-> <<>>, inOrder |-> TRUE]

OrchIdle ==
    /\ resolution = NoResolution
    /\ globalState = EmptyGlobalState
    /\ toolConfig = [d \in Dirs |-> NoConfigInfo]
    /\ inflight = <<>>
    /\ reload = Undefined
    /\ shown = "none"
    /\ lastUse = EmptyGlobalState

\* the 'sandbox' settings section: name, net, noDefaultBinds, bind, mask, ignored
Settings(name, net, noDefaultBinds, bind, mask, ignored) ==
    [name |-> name, net |-> net, noDefaultBinds |-> noDefaultBinds,
     bind |-> bind, mask |-> mask, ignored |-> ignored]

\* no setting is set
NoSettings == Settings(Undefined, "", FALSE, <<>>, <<>>, FALSE)

\* the 'close' event of the child process with the output collected until
\* then: exited says that the process ended on its own, with the exit code
\* code; a process ended by a signal has no exit code (code is null)
ProcessEnd(exited, code, stdout, stderr) ==
    [exited |-> exited, code |-> code, stdout |-> stdout, stderr |-> stderr]

\* an Error: its message is prefix + text
ErrorMessage(prefix, text) == [prefix |-> prefix, text |-> text]

NoError == ErrorMessage("", "")

\* a JSON value: its type and, of an array, its elements
J(type, list) == [type |-> type, list |-> list]

JUndefined == J("undefined", <<>>)

\* the outcome of a gateway function: it returned value, or threw message
Returned(value) == [ok |-> TRUE, message |-> NoError, value |-> value]

Threw(prefix, text) == [ok |-> FALSE, message |-> ErrorMessage(prefix, text), value |-> JUndefined]

\* a command invocation: the command, the await it is suspended at, its
\* patterns and the error it handles
Invocation(cmd, pc, patterns, message) ==
    [cmd |-> cmd, pc |-> pc, patterns |-> patterns, message |-> message]

NoInvocation == Invocation("none", "idle", <<>>, NoError)

GateIdle ==
    /\ settings = NoSettings
    /\ cliFunction = "none"
    /\ cliPatterns = <<>>
    /\ procEnd = ProcessEnd(TRUE, 0, "", "")
    /\ cliResult = Returned(JUndefined)
    /\ argv = <<>>
    /\ errText = <<>>
    /\ errShown = Undefined

CmdIdle ==
    /\ running = NoInvocation
    /\ trace = <<>>
    /\ confirm = "none"

\* one sandbox.diff invocation: where it is, its patterns, the matching
\* changes, the changes still to open, and what it has done
DiffRun(pc, patterns, matching, selected, openedAny, opened, streams) ==
    [pc |-> pc, patterns |-> patterns, matching |-> matching, selected |-> selected,
     openedAny |-> openedAny, opened |-> opened, streams |-> streams]

NoDiffRun == DiffRun("idle", <<>>, <<>>, <<>>, FALSE, 0, 0)

DiffCmdIdle == diffRun = NoDiffRun

\* most terminals the host creates
MaxTerminals == 2

TerminalIds == 1..MaxTerminals

\* a terminal object: not created, open, or closed; and its name
Terminal(state, name) == [state |-> state, name |-> name]

NoTerminal == Terminal("none", <<>>)

TermIdle ==
    /\ terminals = [t \in TerminalIds |-> NoTerminal]
    /\ activeTerminal = 0
    /\ sandboxTerminals = {}
    /\ statusVisible = FALSE

DiffIdle ==
    /\ diffChange = ChangeEntry("none", <<>>, Undefined, Undefined, Undefined)
    /\ fsReadable = {}
    /\ diffCall = NoDiffCall
    /\ diffResult = "none"

GlobIdle ==
    /\ globPattern = <<>>
    /\ globDestination = <<>>
    /\ globResult = "none"

HelpersIdle ==
    /\ cwd = Undefined
    /\ groups = <<>>
    /\ root = EmptyMap
    /\ hierarchy = <<>>
    /\ applied = {}

TreeInit ==
    /\ \E pf \in ProviderFolders :
          /\ workspaceFolder = pf.wf
          /\ workspaceFolders = pf.folders
    /\ inOverlayRoot = FALSE
    /\ hasOriginalWorkspace = FALSE
    /\ \/ statusFails = TRUE /\ changes = <<>>
       \/ statusFails = FALSE /\ changes \in StatusLists
    /\ element = RootElement
    /\ fetched = <<>>
    /\ children = <<>>
    /\ refreshes = 0
    /\ HelpersIdle
    /\ DiffIdle
    /\ GlobIdle
    /\ OrchIdle
    /\ GateIdle
    /\ CmdIdle
    /\ DiffCmdIdle
    /\ TermIdle

\* setUiContext(inOverlayRoot, hasOriginalWorkspace)
SetUiContext(a, b) ==
    /\ inOverlayRoot' = a
    /\ hasOriginalWorkspace' = b
    /\ UNCHANGED <<workspaceFolders, workspaceFolder, changes, statusFails, element,
                   fetched, children, refreshes, outsideTree>>

\* the host asks for the children of el
CallGetChildren(el) ==
    LET res == getChildren(el, workspaceFolders, workspaceFolder, inOverlayRoot,
                           hasOriginalWorkspace, changes, statusFails)
    IN /\ element' = el
       /\ children' = res.nodes
       /\ fetched' = res.fetched
       /\ UNCHANGED <<workspaceFolders, workspaceFolder, inOverlayRoot,
                      hasOriginalWorkspace, changes, statusFails, refreshes, outsideTree>>

GetChildrenRoot == CallGetChildren(RootElement)

\* the host expands a collapsible node it was given before
GetChildrenOfNode ==
    \E i \in 1..Len(children) :
        /\ children[i].collapsibleState # "None"
        /\ CallGetChildren(children[i])

TreeSetUiContext == \E a, b \in BOOLEAN : SetUiContext(a, b)

TreeNext ==
    \/ TreeSetUiContext
    \/ GetChildrenRoot
    \/ GetChildrenOfNode

SpecTree == TreeInit /\ [][TreeNext]_vars

----------------------------------------------------------------------------
(* The helpers of tree.ts applied to any change list and cwd: SpecHier *)

CwdInputs == {Undefined, <<>>, P_w, P_w_b}

ProviderIdle ==
    /\ workspaceFolders = <<>>
    /\ workspaceFolder = Undefined
    /\ inOverlayRoot = FALSE
    /\ hasOriginalWorkspace = FALSE
    /\ statusFails = FALSE
    /\ element = RootElement
    /\ fetched = <<>>
    /\ children = <<>>
    /\ refreshes = 0

HierInit ==
    /\ changes \in ChangeLists
    /\ cwd \in CwdInputs
    /\ groups = <<>>
    /\ root = EmptyMap
    /\ hierarchy = <<>>
    /\ applied = {}
    /\ ProviderIdle
    /\ DiffIdle
    /\ GlobIdle
    /\ OrchIdle
    /\ GateIdle
    /\ CmdIdle
    /\ DiffCmdIdle
    /\ TermIdle

CallGroupByOperation ==
    /\ "groupByOperation" \notin applied
    /\ groups' = groupByOperation(changes)
    /\ applied' = applied \cup {"groupByOperation"}
    /\ UNCHANGED <<provVars, cwd, root, hierarchy, outsideHier>>

CallBuildDirectoryHierarchy ==
    /\ "buildDirectoryHierarchy" \notin applied
    /\ root' = BuildRoot(EmptyMap, changes, cwd)
    /\ hierarchy' = buildDirectoryHierarchy(changes, cwd)
    /\ applied' = applied \cup {"buildDirectoryHierarchy"}
    /\ UNCHANGED <<provVars, cwd, groups, outsideHier>>

HierNext ==
    \/ CallGroupByOperation
    \/ CallBuildDirectoryHierarchy

SpecHier == HierInit /\ [][HierNext]_vars

----------------------------------------------------------------------------
(* extension.ts: the diff resolver, openDiffForChange *)

\* fileExists: a set path that fs.accessSync(p, R_OK) accepts
fileExists(p, fs) == Truthy(p) /\ p \in fs

\* the overlay copy with tmp_path looked at before staged
OverlayPath_TmpFirst(c) ==
    IF Truthy(c.tmp_path) THEN c.tmp_path
    ELSE IF Truthy(c.staged) THEN c.staged
    ELSE c.destination

\* const overlayPath = c.staged || c.tmp_path || c.destination
OverlayPath(c) ==
    IF Truthy(c.staged) THEN c.staged
    ELSE IF Truthy(c.tmp_path) THEN c.tmp_path
    ELSE c.destination

\* vscode.Uri.file(p)
FileSide(p) == [kind |-> "file", path |-> p]

\* createTempEmptyFile: a new empty file in a new temporary directory
TempEmptyFile == [kind |-> "empty", path |-> <<"t", "m", "p">>]

\* the left side with rename resolved like modify (destination first)
LeftSide_RenameLikeModify(c, fs) ==
    IF c.operation = "create" THEN TempEmptyFile
    ELSE IF fileExists(c.destination, fs) THEN FileSide(c.destination)
    ELSE IF fileExists(c.source, fs) THEN FileSide(c.source)
    ELSE TempEmptyFile

\* the left side of the four branches of openDiffForChange
LeftSide(c, fs) ==
    LET destExists == fileExists(c.destination, fs)
        srcExists == fileExists(c.source, fs)
    IN IF c.operation = "create" THEN TempEmptyFile
       ELSE IF c.operation = "remove"
       THEN IF fileExists(c.destination, fs) THEN FileSide(c.destination)
            ELSE IF srcExists THEN FileSide(c.source)
            ELSE TempEmptyFile
       ELSE IF c.operation = "rename"
       THEN IF srcExists THEN FileSide(c.source)
            ELSE IF destExists THEN FileSide(c.destination)
            ELSE TempEmptyFile
       ELSE IF destExists THEN FileSide(c.destination)
            ELSE IF srcExists THEN FileSide(c.source)
            ELSE TempEmptyFile

\* the right side of the four branches
RightSide(c) ==
    IF c.operation = "remove" THEN TempEmptyFile ELSE FileSide(OverlayPath(c))

\* labelForChange
labelForChange(c) ==
    IF c.operation = "rename" /\ Truthy(c.source)
    THEN <<"rename", c.source, c.destination>>
    ELSE <<"path", c.destination>>

\* openDiffForChange: tmpOk tells whether createTempEmptyFile succeeds,
\* diffOk whether the vscode.diff command does; any throw is caught and
\* makes the result false
openDiffForChange(c, fs, tmpOk, diffOk) ==
    LET left == LeftSide(c, fs)
        right == RightSide(c)
        needsTemp == left.kind = "empty" \/ right.kind = "empty"
    IN IF needsTemp /\ ~tmpOk
       THEN [call |-> NoDiffCall, result |-> FALSE]
       ELSE [call |-> [called |-> TRUE, left |-> left, right |-> right,
                       title |-> labelForChange(c)],
             result |-> diffOk]

D_dest == P_w_a
D_source == P_w_c
D_staged == <<"/", "s">>
D_tmp == <<"/", "t">>

DiffOperations == {"create", "remove", "rename", "modify", "chmod"}

\* the entries given to the resolver: every operation with each optional
\* field absent, empty and set
DiffEntries ==
    { ChangeEntry(op, D_dest, src, stg, tmp) :
        op \in DiffOperations,
        src \in {Undefined, <<>>, D_source},
        stg \in {Undefined, <<>>, D_staged},
        tmp \in {Undefined, <<>>, D_tmp} }

DiffInit ==
    /\ diffChange \in DiffEntries
    /\ fsReadable \in SUBSET {D_dest, D_source, D_staged, D_tmp}
    /\ diffCall = NoDiffCall
    /\ diffResult = "none"
    /\ changes = <<>>
    /\ ProviderIdle
    /\ HelpersIdle
    /\ GlobIdle
    /\ OrchIdle
    /\ GateIdle
    /\ CmdIdle
    /\ DiffCmdIdle
    /\ TermIdle

OpenDiffForChange ==
    /\ diffResult = "none"
    /\ \E tmpOk, diffOk \in BOOLEAN :
          LET res == openDiffForChange(diffChange, fsReadable, tmpOk, diffOk)
          IN /\ diffCall' = res.call
             /\ diffResult' = IF res.result THEN "true" ELSE "false"
    /\ UNCHANGED <<diffChange, fsReadable, outsideDiff>>

DiffNext == OpenDiffForChange

SpecDiff == DiffInit /\ [][DiffNext]_vars

----------------------------------------------------------------------------
(* extension.ts: globToRegex and the RegExp it builds *)

\* the characters of the class [.+^${}()|[\]\\] of the first replace
EscapedChars == {".", "+", "^", "$", "{", "}", "(", ")", "|", "[", "]", "\\"}

\* the class with the '.' left out
EscapedChars_DotMissing == {"+", "^", "$", "{", "}", "(", ")", "|", "[", "]", "\\"}

RECURSIVE EscapeWith(_, _)
\* glob.replace(/[...]/g, '\\$&') for a class of characters
EscapeWith(s, class) ==
    IF s = <<>> THEN <<>>
    ELSE (IF s[1] \in class THEN <<"\\", s[1]>> ELSE <<s[1]>>)
         \o EscapeWith(Tail(s), class)

\* the first replace without the '.' in its class
EscapeRegex_DotMissing(s) == EscapeWith(s, EscapedChars_DotMissing)

\* the first replace of globToRegex
EscapeRegex(s) == EscapeWith(s, EscapedChars)

RECURSIVE ReplaceAll(_, _, _)
\* String.prototype.replace with a global literal pattern: the leftmost
\* occurrences that do not overlap
ReplaceAll(s, pat, rep) ==
    IF Len(s) < Len(pat) THEN s
    ELSE IF SubSeq(s, 1, Len(pat)) = pat
         THEN rep \o ReplaceAll(SubSeq(s, Len(pat) + 1, Len(s)), pat, rep)
         ELSE <<s[1]>> \o ReplaceAll(Tail(s), pat, rep)

DOUBLE_STAR == <<":", ":", "D", "O", "U", "B", "L", "E", "_", "S", "T", "A", "R", ":", ":">>

\* the source text of the RegExp: '^' + escaped + '$'
RegexSource(glob) ==
    LET escaped == EscapeRegex(glob)
        marked == ReplaceAll(escaped, <<"*", "*">>, DOUBLE_STAR)
        single == ReplaceAll(marked, <<"*">>, <<"[", "^", "/", "]", "*">>)
        double == ReplaceAll(single, DOUBLE_STAR, <<".", "*">>)
    IN <<"^">> \o double \o <<"$">>

Token(kind, ch) == [kind |-> kind, ch |-> ch, quant |-> "one"]

\* the last token given a quantifier
Quantified(toks, q) == [toks EXCEPT ![Len(toks)].quant = q]

RECURSIVE ParseRegex(_, _, _, _)
\* new RegExp(src): the terms of the pattern, or invalid when a quantifier
\* has nothing to repeat.  last is "atom" after a term that can take a
\* quantifier, "quantified" after a quantifier (a '?' then makes it lazy),
\* "none" after an assertion or a lazy quantifier
ParseRegex(src, i, toks, last) ==
    IF i > Len(src) THEN [valid |-> TRUE, tokens |-> toks]
    ELSE LET ch == src[i]
         IN IF ch = "\\"
            THEN IF i + 1 > Len(src) THEN [valid |-> FALSE, tokens |-> <<>>]
                 ELSE ParseRegex(src, i + 2, Append(toks, Token("char", src[i + 1])), "atom")
            ELSE IF ch = "^" THEN ParseRegex(src, i + 1, Append(toks, Token("bol", ch)), "none")
            ELSE IF ch = "$" THEN ParseRegex(src, i + 1, Append(toks, Token("eol", ch)), "none")
            ELSE IF ch = "." THEN ParseRegex(src, i + 1, Append(toks, Token("any", ch)), "atom")
            ELSE IF ch = "["
            THEN IF i + 3 <= Len(src) /\ SubSeq(src, i, i + 3) = <<"[", "^", "/", "]">>
                 THEN ParseRegex(src, i + 4, Append(toks, Token("nonslash", "/")), "atom")
                 ELSE [valid |-> FALSE, tokens |-> <<>>]
            ELSE IF ch = "*"
            THEN IF last = "atom"
                 THEN ParseRegex(src, i + 1, Quantified(toks, "star"), "quantified")
                 ELSE [valid |-> FALSE, tokens |-> <<>>]
            ELSE IF ch = "?"
            THEN IF last = "atom"
                 THEN ParseRegex(src, i + 1, Quantified(toks, "opt"), "quantified")
                 ELSE IF last = "quantified"
                 THEN ParseRegex(src, i + 1, toks, "none")
                 ELSE [valid |-> FALSE, tokens |-> <<>>]
            ELSE ParseRegex(src, i + 1, Append(toks, Token("char", ch)), "atom")

\* globToRegex(glob)
globToRegex(glob) == ParseRegex(RegexSource(glob), 1, <<>>, "none")

\* whether one term accepts one character
TermAccepts(t, ch) ==
    IF t.kind = "char" THEN ch = t.ch
    ELSE IF t.kind = "nonslash" THEN ch # "/"
    ELSE t.kind = "any"

RECURSIVE MatchHere(_, _, _)
\* whether the terms match a prefix of s that starts at the position given
\* (atStart: at the start of the input)
MatchHere(toks, s, atStart) ==
    IF toks = <<>> THEN TRUE
    ELSE LET t == Head(toks)
             rest == Tail(toks)
             takesOne == s # <<>> /\ TermAccepts(t, s[1])
         IN IF t.kind = "bol" THEN atStart /\ MatchHere(rest, s, atStart)
            ELSE IF t.kind = "eol" THEN s = <<>> /\ MatchHere(rest, s, atStart)
            ELSE IF t.quant = "one" THEN takesOne /\ MatchHere(rest, Tail(s), FALSE)
            ELSE IF t.quant = "opt"
            THEN MatchHere(rest, s, atStart) \/ (takesOne /\ MatchHere(rest, Tail(s), FALSE))
            ELSE MatchHere(rest, s, atStart) \/ (takesOne /\ MatchHere(toks, Tail(s), FALSE))

\* RegExp.prototype.test: a match starting at any position
RegExpTest(re, s) ==
    \E k \in 0..Len(s) : MatchHere(re.tokens, SubSeq(s, k + 1, Len(s)), k = 0)

\* globToRegex(pattern).test(destination): "throws" when the RegExp
\* constructor rejects the pattern
GlobTestOutcome(glob, dest) ==
    LET re == globToRegex(glob)
    IN IF ~re.valid THEN "throws"
       ELSE IF RegExpTest(re, dest) THEN "match"
       ELSE "nomatch"

\* filterChangesByPatterns: the entries whose destination some pattern's
\* RegExp accepts
filterChangesByPatterns(cs, patterns) ==
    SelectSeq(cs, LAMBDA c :
        \E i \in 1..Len(patterns) : GlobTestOutcome(patterns[i], c.destination) = "match")

\* longest enumerated pattern and destination
MaxPattern == 3

MaxDestination == 3

Str_a_star_ts == <<"a", "/", "*", ".", "t", "s">>
Str_a_b_ts == <<"a", "/", "b", ".", "t", "s">>
Str_a_b_c_ts == <<"a", "/", "b", "/", "c", ".", "t", "s">>
Str_a_starstar == <<"a", "/", "*", "*">>
Str_a_x == <<"a", "/", "x">>
Str_lit_txt == <<"l", "i", "t", ".", "t", "x", "t">>
Str_litxtxt == <<"l", "i", "t", "x", "t", "x", "t">>
Str_lit_txt_a == <<"l", "i", "t", ".", "t", "x", "t", "a">>
Str_a_lit_txt == <<"a", "l", "i", "t", ".", "t", "x", "t">>
Str_a_c_d == <<"a", "-", "c", ":", "d">>

PatternInputs ==
    SeqsUpTo({"a", "/", "*", "?", "."}, MaxPattern)
    \cup {Str_a_star_ts, Str_a_starstar, Str_lit_txt, Str_a_c_d, DOUBLE_STAR}

DestinationInputs ==
    SeqsUpTo({"a", "/", "?"}, MaxDestination)
    \cup {Str_a_b_ts, Str_a_b_c_ts, Str_a_x, Str_lit_txt, Str_litxtxt,
          Str_lit_txt_a, Str_a_lit_txt, Str_a_c_d, DOUBLE_STAR}

GlobInit ==
    /\ globPattern \in PatternInputs
    /\ globDestination \in DestinationInputs
    /\ globResult = "none"
    /\ changes = <<>>
    /\ ProviderIdle
    /\ HelpersIdle
    /\ DiffIdle
    /\ OrchIdle
    /\ GateIdle
    /\ CmdIdle
    /\ DiffCmdIdle
    /\ TermIdle

\* regexes.some((r) => r.test(c.destination)) for one pattern
TestDestination ==
    /\ globResult = "none"
    /\ globResult' = GlobTestOutcome(globPattern, globDestination)
    /\ UNCHANGED <<globPattern, globDestination, outsideGlob>>

GlobNext == TestDestination

SpecGlob == GlobInit /\ [][GlobNext]_vars

----------------------------------------------------------------------------
(* CLI gateway: cli.ts (src/unnamed/part_001) *)

\* String.prototype.trim, for the blank character ' '
RECURSIVE TrimStart(_)
TrimStart(s) == IF s # <<>> /\ Head(s) = " " THEN TrimStart(Tail(s)) ELSE s

RECURSIVE TrimEnd(_)
TrimEnd(s) ==
    IF s # <<>> /\ s[Len(s)] = " " THEN TrimEnd(SubSeq(s, 1, Len(s) - 1)) ELSE s

Trim(s) == TrimEnd(TrimStart(s))

\* an element of an argument vector: a word the code writes out, or a
\* string taken from the settings or from the caller
Lit(word) == <<"lit", word>>

Str(chars) == <<"str", chars>>

\* `b && b.trim()`: the value is set and not blank
NonBlank(b) == Truthy(b) /\ Trim(b) # <<>>

RECURSIVE FlagEach(_, _)
\* for (const b of list) if (b && b.trim()) args.push(flag, b)
FlagEach(flag, list) ==
    IF list = <<>> THEN <<>>
    ELSE (IF NonBlank(Head(list)) THEN <<Lit(flag), Str(Head(list))>> ELSE <<>>)
         \o FlagEach(flag, Tail(list))

\* a base argument list with the masks before the binds
buildBaseArgs_MasksFirst(cfg) ==
    (IF Truthy(cfg.name) /\ Len(Trim(cfg.name)) > 0
     THEN <<Lit("--name"), Str(cfg.name)>> ELSE <<>>)
    \o (IF cfg.net = "host" THEN <<Lit("--net=host")>> ELSE <<>>)
    \o (IF cfg.noDefaultBinds THEN <<Lit("--no-default-binds")>> ELSE <<>>)
    \o FlagEach("--mask", cfg.mask)
    \o FlagEach("--bind", cfg.bind)
    \o (IF cfg.ignored THEN <<Lit("--ignored")>> ELSE <<>>)

buildBaseArgs(cfg) ==
    (IF Truthy(cfg.name) /\ Len(Trim(cfg.name)) > 0
     THEN <<Lit("--name"), Str(cfg.name)>> ELSE <<>>)
    \o (IF cfg.net = "host" THEN <<Lit("--net=host")>> ELSE <<>>)
    \o (IF cfg.noDefaultBinds THEN <<Lit("--no-default-binds")>> ELSE <<>>)
    \o FlagEach("--bind", cfg.bind)
    \o FlagEach("--mask", cfg.mask)
    \o (IF cfg.ignored THEN <<Lit("--ignored")>> ELSE <<>>)

\* ...patterns
Spread(patterns) == [i \in 1..Len(patterns) |-> Str(patterns[i])]

GatewayFunctions ==
    {"fetchConfig", "fetchStatus", "runAccept", "runReject", "runDiff",
     "spawnDiffStream", "runSync", "runStop", "runDelete"}

PatternFunctions == {"runAccept", "runReject", "runDiff", "spawnDiffStream"}

\* what follows the base arguments in the call of a gateway function
SubcommandArgs(fn, patterns) ==
    CASE fn = "fetchConfig" ->
           <<Lit("config"), Lit("--json"), Lit("name"), Lit("storage_dir"),
             Lit("upper_cwd"), Lit("overlay_cwd")>>
      [] fn = "fetchStatus" -> <<Lit("status"), Lit("--json")>>
      [] fn = "runAccept" -> <<Lit("accept")>> \o Spread(patterns)
      [] fn = "runReject" -> <<Lit("reject")>> \o Spread(patterns)
      [] fn \in {"runDiff", "spawnDiffStream"} -> <<Lit("diff")>> \o Spread(patterns)
      [] fn = "runSync" -> <<Lit("sync")>>
      [] fn = "runStop" -> <<Lit("stop")>>
      [] fn = "runDelete" -> <<Lit("delete"), Lit("-y")>>

\* const args = [...buildBaseArgs(), <subcommand>, ...]
CliArgs(cfg, fn, patterns) == buildBaseArgs(cfg) \o SubcommandArgs(fn, patterns)

\* execFile: resolve({ stdout, stderr, code: code ?? 0 })
execFile(end) ==
    [stdout |-> end.stdout, stderr |-> end.stderr,
     code |-> IF end.exited THEN end.code ELSE 0]

\* res.stderr || res.stdout
StderrOrStdout(res) == IF res.stderr # "" THEN res.stderr ELSE res.stdout

\* if (res.code !== 0) throw new Error(res.stderr || res.stdout)
RunOutcome(res) ==
    IF res.code # 0 THEN Threw("", StderrOrStdout(res)) ELSE Returned(JUndefined)

\* the change entries the status documents carry
E_modify == ChangeEntry("modify", P_w_a, Undefined, Undefined, Undefined)
E_create == ChangeEntry("create", P_w_b, Undefined, Undefined, Undefined)

\* a parsed JSON document: its type and, of an object, the members read
Doc(type, changesMember, overlay, upper) ==
    [json |-> TRUE, type |-> type, changes |-> changesMember,
     overlay_cwd |-> overlay, upper_cwd |-> upper]

NotJson == [json |-> FALSE, type |-> "undefined", changes |-> JUndefined,
            overlay_cwd |-> Undefined, upper_cwd |-> Undefined]

\* JSON.parse on the texts the tool is taken to print; not JSON otherwise
JSONParse(text) ==
    CASE text = "null" -> Doc("null", JUndefined, Undefined, Undefined)
      [] text = "5" -> Doc("number", JUndefined, Undefined, Undefined)
      [] text = "[]" -> Doc("array", JUndefined, Undefined, Undefined)
      [] text = "{}" -> Doc("object", JUndefined, Undefined, Undefined)
      [] text = "{\"changes\":null}" ->
           Doc("object", J("null", <<>>), Undefined, Undefined)
      [] text = "{\"changes\":5}" ->
           Doc("object", J("number", <<>>), Undefined, Undefined)
      [] text = "{\"changes\":[]}" ->
           Doc("object", J("array", <<>>), Undefined, Undefined)
      [] text = "{\"changes\":[modify,create]}" ->
           Doc("object", J("array", <<E_modify, E_create>>), Undefined, Undefined)
      [] text = "{\"changes\":[create,modify]}" ->
           Doc("object", J("array", <<E_create, E_modify>>), Undefined, Undefined)
      [] text = "{\"overlay_cwd\":\"/o\",\"upper_cwd\":\"/u\"}" ->
           Doc("object", JUndefined, P_o, P_u)
      [] OTHER -> NotJson

\* the texts the process writes to stdout
StdoutTexts ==
    {"", "oops", "null", "5", "[]", "{}", "{\"changes\":null}", "{\"changes\":5}",
     "{\"changes\":[]}", "{\"changes\":[modify,create]}",
     "{\"changes\":[create,modify]}", "{\"overlay_cwd\":\"/o\",\"upper_cwd\":\"/u\"}"}

StderrTexts == {"", "sandbox: failed"}

\* reading a member of the parsed value throws a TypeError for null
MemberReadThrows(doc) == doc.type = "null"

\* a status fetch that also fails when the exit code is not 0
fetchStatusOutcome_ChecksCode(res) ==
    LET doc == JSONParse(res.stdout)
    IN IF res.code # 0 \/ ~doc.json \/ MemberReadThrows(doc)
       THEN Threw("Failed to parse sandbox status JSON: ", StderrOrStdout(res))
       ELSE IF doc.changes.type \in {"undefined", "null"}
            THEN Returned(J("array", <<>>))
            ELSE Returned(doc.changes)

\* fetchStatus, from the try on: return parsed.changes ?? []
fetchStatusOutcome(res) ==
    LET doc == JSONParse(res.stdout)
    IN IF ~doc.json \/ MemberReadThrows(doc)
       THEN Threw("Failed to parse sandbox status JSON: ", StderrOrStdout(res))
       ELSE IF doc.changes.type \in {"undefined", "null"}
            THEN Returned(J("array", <<>>))
            ELSE Returned(doc.changes)

\* the SandboxConfigInfo returned by fetchConfig, as a value
ConfigValue(doc) == [type |-> "config", list |-> <<doc.overlay_cwd, doc.upper_cwd>>]

\* fetchConfig, from the try on
fetchConfigOutcome(res) ==
    LET doc == JSONParse(res.stdout)
    IN IF ~doc.json \/ MemberReadThrows(doc)
       THEN Threw("Failed to parse sandbox config JSON: ", StderrOrStdout(res))
       ELSE Returned(ConfigValue(doc))

\* runDiff: the exit code check, then return res.stdout
runDiffOutcome(res) ==
    IF res.code # 0 THEN Threw("", StderrOrStdout(res))
    ELSE Returned([type |-> "string", list |-> <<res.stdout>>])

\* what the gateway function fn returns or throws when the process ends so
GatewayOutcome(fn, end) ==
    CASE fn = "fetchConfig" -> fetchConfigOutcome(execFile(end))
      [] fn = "fetchStatus" -> fetchStatusOutcome(execFile(end))
      [] fn = "runDiff" -> runDiffOutcome(execFile(end))
      [] fn = "spawnDiffStream" -> Returned(JUndefined)
      [] OTHER -> RunOutcome(execFile(end))

ExitCodes == {0, 1, 255}

\* the ways the process ends
ProcessEnds ==
    { ProcessEnd(TRUE, c, out, err) : c \in ExitCodes, out \in StdoutTexts, err \in StderrTexts }
    \cup { ProcessEnd(FALSE, 0, out, err) : out \in StdoutTexts, err \in StderrTexts }

CliInit ==
    /\ cliFunction \in GatewayFunctions
    /\ procEnd \in ProcessEnds
    /\ settings = NoSettings
    /\ cliPatterns = <<>>
    /\ cliResult = Returned(JUndefined)
    /\ argv = <<>>
    /\ errText = <<>>
    /\ errShown = Undefined
    /\ changes = <<>>
    /\ ProviderIdle
    /\ HelpersIdle
    /\ DiffIdle
    /\ GlobIdle
    /\ OrchIdle
    /\ CmdIdle
    /\ DiffCmdIdle
    /\ TermIdle

\* the gateway function is called and the process it spawns ends
CallGateway ==
    /\ argv = <<>>
    /\ argv' = CliArgs(settings, cliFunction, cliPatterns)
    /\ cliResult' = GatewayOutcome(cliFunction, procEnd)
    /\ UNCHANGED <<settings, cliFunction, cliPatterns, procEnd, errText, errShown, outsideGate>>

CliNext == CallGateway

SpecCli == CliInit /\ [][CliNext]_vars

----------------------------------------------------------------------------
(* cli.ts: the argument vectors under any settings: SpecArgs *)

NameSettings == {Undefined, <<>>, <<" ">>, <<" ", "n">>}

NetSettings == {"", "host", "none"}

BindSettings == {<<" ">>, <<"b">>, <<"c">>}

MaskSettings == {<<>>, <<"m">>, <<"k">>}

MaxBinds == 2

\* the values of the sandbox.* settings
SettingsValues ==
    { Settings(name, net, noDefaultBinds, bind, mask, ignored) :
        name \in NameSettings, net \in NetSettings, noDefaultBinds \in BOOLEAN,
        bind \in SeqsUpTo(BindSettings, MaxBinds),
        mask \in SeqsUpTo(MaskSettings, MaxBinds), ignored \in BOOLEAN }

\* the patterns a caller passes
PatternLists == {<<>>, <<P_w_a, P_w_b>>}

ArgsInit ==
    /\ settings \in SettingsValues
    /\ cliFunction \in GatewayFunctions
    /\ cliPatterns \in (IF cliFunction \in PatternFunctions THEN PatternLists ELSE {<<>>})
    /\ procEnd = ProcessEnd(TRUE, 0, "", "")
    /\ cliResult = Returned(JUndefined)
    /\ argv = <<>>
    /\ errText = <<>>
    /\ errShown = Undefined
    /\ changes = <<>>
    /\ ProviderIdle
    /\ HelpersIdle
    /\ DiffIdle
    /\ GlobIdle
    /\ OrchIdle
    /\ CmdIdle
    /\ DiffCmdIdle
    /\ TermIdle

SpecArgs == ArgsInit /\ [][CliNext]_vars

----------------------------------------------------------------------------
(* Command orchestrator: extension.ts (src/README.md lines 485-894) *)

\* path.basename: the name the host gives a folder it opens
Basename(p) == p[Len(p)]

MaxFolders == 2
MaxInflight == 2
MaxRefreshes == 1

\* what `sandbox config --json` reports, per working directory: a sandbox
\* known in /w and in its overlay /o, with the upper directory /u; and a
\* sandbox known in /w only that reports an empty overlay_cwd and the upper
\* directory /o
ToolConfigs ==
    { [d \in Dirs |-> IF d \in {P_w, P_o} THEN ConfigInfo(P_o, P_u) ELSE NoConfigInfo],
      [d \in Dirs |-> IF d = P_w THEN ConfigInfo(<<>>, P_o) ELSE NoConfigInfo] }

\* cfg.overlay_cwd || cfg.upper_cwd
OverlayOf(cfg) == IF Truthy(cfg.overlay_cwd) THEN cfg.overlay_cwd ELSE cfg.upper_cwd

\* the outcomes of `await fetchConfig(dir)` followed by the ||: the call
\* throws (stdout is not JSON) or yields the overlay of the reported config
ConfigResults(dir) ==
    { [ok |-> FALSE, overlay |-> Undefined],
      [ok |-> TRUE, overlay |-> OverlayOf(toolConfig[dir])] }

\* getWorkspaceCwd(), on a folder list
getWorkspaceCwd(folders) == IF Len(folders) > 0 THEN folders[1].path ELSE Undefined

\* the `cwd` constant of activate(): the first folder at activation, which is
\* also the folder given to the provider's constructor
activationCwd == workspaceFolder

rememberOverlayMapping_KeyIsOriginal(gs, overlayPath, originalPath) ==
    [gs EXCEPT ![originalPath] = overlayPath]

rememberOverlayMapping(gs, overlayPath, originalPath) ==
    [gs EXCEPT ![overlayPath] = originalPath]

\* a recall that answers with the key it was asked for
recallOriginalForOverlay_AnswersKey(gs, overlayPath) ==
    IF gs[overlayPath] = Undefined THEN Undefined ELSE overlayPath

recallOriginalForOverlay(gs, overlayPath) == gs[overlayPath]

forgetOverlayMapping(gs, overlayPath) == [gs EXCEPT ![overlayPath] = Undefined]

\* an invocation suspended at an await: the command, the await it waits at
\* and the locals it holds
Handler(cmd, pc, current, inOv, hasOrig) ==
    [cmd |-> cmd, pc |-> pc, current |-> current,
     inOverlayRoot |-> inOv, hasOriginal |-> hasOrig]

\* updateSandboxContexts() up to its first await
UpdateStarted(folders) ==
    Handler("update", "fetchConfig", getWorkspaceCwd(folders), FALSE, FALSE)

RemoveAt(q, i) == SubSeq(q, 1, i - 1) \o SubSeq(q, i + 1, Len(q))

\* the history after a config call has resolved to these flags
Resolved(res, flags) ==
    [queue |-> Append(res.queue, flags),
     inOrder |-> IF res.queue = <<>> THEN TRUE ELSE res.inOrder]

\* the history after an update has applied these flags
Applied(res, flags) ==
    LET k == CHOOSE n \in 1..Len(res.queue) :
                 /\ res.queue[n] = flags
                 /\ \A m \in 1..(n - 1) : res.queue[m] # flags
    IN [queue |-> RemoveAt(res.queue, k), inOrder |-> res.inOrder /\ k = 1]

\* treeProvider.refresh(): one more change event the host has not served
Fired(n) == IF n < MaxRefreshes THEN n + 1 ELSE n

\* the windows the extension is activated in
InitFolders ==
    { <<>>,
      <<Folder("w", P_w)>>,
      <<Folder("o", P_o), Folder("w", P_w)>> }

\* activate(): the provider is constructed and the first context update is
\* started (line 776)
OrchInit ==
    /\ workspaceFolders \in InitFolders
    /\ workspaceFolder = getWorkspaceCwd(workspaceFolders)
    /\ inOverlayRoot = FALSE
    /\ hasOriginalWorkspace = FALSE
    /\ statusFails = FALSE
    /\ changes = <<ChangeEntry("modify", P_w_a, Undefined, Undefined, Undefined)>>
    /\ element = RootElement
    /\ fetched = <<>>
    /\ children = <<>>
    /\ refreshes = 0
    /\ globalState = EmptyGlobalState
    /\ toolConfig \in ToolConfigs
    /\ inflight = <<UpdateStarted(workspaceFolders)>>
    /\ reload = Undefined
    /\ shown = "none"
    /\ lastUse = EmptyGlobalState
    /\ resolution = NoResolution
    /\ HelpersIdle
    /\ DiffIdle
    /\ GlobIdle
    /\ GateIdle
    /\ CmdIdle
    /\ DiffCmdIdle
    /\ TermIdle

\* the extension host starts the extension anew in a window with these
\* folders: suspended invocations are gone, globalState is kept
Activate(folders) ==
    /\ workspaceFolders' = folders
    /\ workspaceFolder' = getWorkspaceCwd(folders)
    /\ inOverlayRoot' = FALSE
    /\ hasOriginalWorkspace' = FALSE
    /\ element' = RootElement
    /\ fetched' = <<>>
    /\ children' = <<>>
    /\ refreshes' = 0
    /\ inflight' = <<UpdateStarted(folders)>>
    /\ reload' = Undefined
    /\ shown' = "none"
    /\ resolution' = NoResolution
    /\ UNCHANGED <<changes, statusFails, globalState, toolConfig, lastUse, outsideUpdate>>

\* the host may restart the extensions when the first folder changes or a
\* window with at most one folder becomes multi-root
MayRestart(old, new) ==
    \/ getWorkspaceCwd(old) # getWorkspaceCwd(new)
    \/ Len(old) <= 1 /\ Len(new) > 1

\* the folder list changes to new while the extension runs: the host either
\* restarts the extension or delivers onDidChangeWorkspaceFolders, whose
\* listener starts an update (line 733); started are the invocations the
\* calling handler starts in the same turn
FoldersChange(new, rest, started) ==
    \/ /\ MayRestart(workspaceFolders, new)
       /\ Activate(new)
    \/ /\ Len(rest) + Len(started) + 1 <= MaxInflight
       /\ workspaceFolders' = new
       /\ inflight' = rest \o started \o <<UpdateStarted(new)>>
       /\ UNCHANGED <<workspaceFolder, inOverlayRoot, hasOriginalWorkspace, changes,
                      statusFails, element, fetched, children, refreshes,
                      globalState, toolConfig, lastUse, reload, shown, outsideOrch>>

\* ---- updateSandboxContexts (lines 551-572) ----

\* fetchConfig(current) returns or throws; both flags are computed
UpdateConfig ==
    \E i \in 1..Len(inflight) :
        /\ inflight[i].cmd = "update"
        /\ inflight[i].pc = "fetchConfig"
        /\ \E r \in ConfigResults(inflight[i].current) :
              LET current == inflight[i].current
                  inOv == r.ok /\ Truthy(r.overlay) /\ Truthy(current) /\ r.overlay = current
                  hasOrig == IF Truthy(current)
                             THEN Truthy(recallOriginalForOverlay(globalState, current))
                             ELSE FALSE
              IN /\ inflight' = [inflight EXCEPT ![i] =
                                    Handler("update", "setContext", current, inOv, hasOrig)]
                 /\ resolution' = Resolved(resolution, <<inOv, hasOrig>>)
        /\ UNCHANGED <<provVars, globalState, toolConfig, lastUse, reload, shown, outsideUpdate>>

\* an update that applies its flags only when no update started after it is
\* still in flight
UpdateApply_NewestOnly ==
    \E i \in 1..Len(inflight) :
        /\ inflight[i].cmd = "update"
        /\ inflight[i].pc = "setContext"
        /\ LET newest == \A j \in (i + 1)..Len(inflight) : inflight[j].cmd # "update"
           IN /\ inOverlayRoot' = IF newest THEN inflight[i].inOverlayRoot ELSE inOverlayRoot
              /\ hasOriginalWorkspace' =
                     IF newest THEN inflight[i].hasOriginal ELSE hasOriginalWorkspace
        /\ refreshes' = Fired(refreshes)
        /\ inflight' = RemoveAt(inflight, i)
        /\ resolution' = Applied(resolution,
                                  <<inflight[i].inOverlayRoot, inflight[i].hasOriginal>>)
        /\ UNCHANGED <<workspaceFolders, workspaceFolder, changes, statusFails, element,
                       fetched, children, globalState, toolConfig, lastUse, reload, shown,
                       outsideUpdate>>

\* the setContext commands have returned: setUiContext and refresh
UpdateApply ==
    \E i \in 1..Len(inflight) :
        /\ inflight[i].cmd = "update"
        /\ inflight[i].pc = "setContext"
        /\ inOverlayRoot' = inflight[i].inOverlayRoot
        /\ hasOriginalWorkspace' = inflight[i].hasOriginal
        /\ refreshes' = Fired(refreshes)
        /\ inflight' = RemoveAt(inflight, i)
        /\ resolution' = Applied(resolution,
                                  <<inflight[i].inOverlayRoot, inflight[i].hasOriginal>>)
        /\ UNCHANGED <<workspaceFolders, workspaceFolder, changes, statusFails, element,
                       fetched, children, globalState, toolConfig, lastUse, reload, shown,
                       outsideUpdate>>

\* ---- the commands that wait for fetchConfig(cwd) first ----

ConfigCommands == {"useOverlayInExplorer", "addOverlayFolder"}

\* sandbox.useOverlayInExplorer and sandbox.addOverlayFolder up to
\* `await fetchConfig(cwd)`
ConfigCommandStart ==
    \E c \in ConfigCommands :
        /\ Len(inflight) < MaxInflight
        /\ inflight' = Append(inflight, Handler(c, "fetchConfig", Undefined, FALSE, FALSE))
        /\ UNCHANGED <<provVars, globalState, toolConfig, lastUse, reload, shown, outsideOrch>>

\* fetchConfig threw, or no overlay is reported: handleCliError shows the
\* error and waits for the user
ConfigError ==
    \E i \in 1..Len(inflight), r \in ConfigResults(activationCwd) :
        /\ inflight[i].cmd \in ConfigCommands
        /\ inflight[i].pc = "fetchConfig"
        /\ ~r.ok \/ ~Truthy(r.overlay)
        /\ shown' = "error"
        /\ inflight' = [inflight EXCEPT ![i] =
                           Handler(inflight[i].cmd, "showErrorMessage", Undefined, FALSE, FALSE)]
        /\ UNCHANGED <<provVars, globalState, toolConfig, lastUse, reload, outsideOrch>>

\* the user closes the error message: the handler runs on to its
\* updateSandboxContexts()
ErrorDismissed ==
    \E i \in 1..Len(inflight) :
        /\ inflight[i].cmd \in ConfigCommands
        /\ inflight[i].pc = "showErrorMessage"
        /\ inflight' = Append(RemoveAt(inflight, i), UpdateStarted(workspaceFolders))
        /\ UNCHANGED <<provVars, globalState, toolConfig, lastUse, reload, shown, outsideOrch>>

\* ---- sandbox.useOverlayInExplorer (lines 673-688) ----

\* a use-overlay handler that opens the folder in the step that writes the
\* mapping
UseOverlayRemember_OpensAtOnce ==
    \E i \in 1..Len(inflight), r \in ConfigResults(activationCwd) :
        /\ inflight[i].cmd = "useOverlayInExplorer"
        /\ inflight[i].pc = "fetchConfig"
        /\ r.ok
        /\ Truthy(r.overlay)
        /\ LET originalRoot == getWorkspaceCwd(workspaceFolders)
           IN /\ globalState' = IF Truthy(originalRoot)
                                THEN rememberOverlayMapping(globalState, r.overlay, originalRoot)
                                ELSE globalState
              /\ lastUse' = IF Truthy(originalRoot)
                            THEN [lastUse EXCEPT ![r.overlay] = originalRoot]
                            ELSE lastUse
              /\ inflight' = [inflight EXCEPT ![i] =
                    Handler("useOverlayInExplorer", "openFolder", r.overlay, FALSE, FALSE)]
              /\ reload' = r.overlay
        /\ UNCHANGED <<provVars, toolConfig, shown, outsideOrch>>

\* the config names an overlay: the mapping is written when there is a
\* workspace root, then vscode.openFolder is called
UseOverlayRemember ==
    \E i \in 1..Len(inflight), r \in ConfigResults(activationCwd) :
        /\ inflight[i].cmd = "useOverlayInExplorer"
        /\ inflight[i].pc = "fetchConfig"
        /\ r.ok
        /\ Truthy(r.overlay)
        /\ LET originalRoot == getWorkspaceCwd(workspaceFolders)
           IN IF Truthy(originalRoot)
              THEN /\ globalState' = rememberOverlayMapping(globalState, r.overlay, originalRoot)
                   /\ lastUse' = [lastUse EXCEPT ![r.overlay] = originalRoot]
                   /\ inflight' = [inflight EXCEPT ![i] =
                         Handler("useOverlayInExplorer", "rememberOverlayMapping",
                                 r.overlay, FALSE, FALSE)]
                   /\ reload' = reload
              ELSE /\ globalState' = globalState
                   /\ lastUse' = lastUse
                   /\ inflight' = [inflight EXCEPT ![i] =
                         Handler("useOverlayInExplorer", "openFolder", r.overlay, FALSE, FALSE)]
                   /\ reload' = r.overlay
        /\ UNCHANGED <<provVars, toolConfig, shown, outsideOrch>>

\* globalState.update has returned: vscode.openFolder(overlay)
UseOverlayOpenFolder ==
    \E i \in 1..Len(inflight) :
        /\ inflight[i].cmd = "useOverlayInExplorer"
        /\ inflight[i].pc = "rememberOverlayMapping"
        /\ reload' = inflight[i].current
        /\ inflight' = [inflight EXCEPT ![i] =
              Handler("useOverlayInExplorer", "openFolder", inflight[i].current, FALSE, FALSE)]
        /\ UNCHANGED <<provVars, globalState, toolConfig, lastUse, shown, outsideOrch>>

\* vscode.openFolder has returned and the window is still there: the
\* best-effort updateSandboxContexts()
UseOverlayUpdate ==
    \E i \in 1..Len(inflight) :
        /\ inflight[i].cmd = "useOverlayInExplorer"
        /\ inflight[i].pc = "openFolder"
        /\ inflight' = Append(RemoveAt(inflight, i), UpdateStarted(workspaceFolders))
        /\ UNCHANGED <<provVars, globalState, toolConfig, lastUse, reload, shown, outsideOrch>>

\* ---- sandbox.restoreWorkspaceFolder (lines 689-700) ----

\* a restore that, without a mapping, starts the update and shows nothing
RestoreStart_NoWarning ==
    LET current == getWorkspaceCwd(workspaceFolders)
        original == recallOriginalForOverlay(globalState, current)
    IN /\ Truthy(current)
       /\ Len(inflight) < MaxInflight
       /\ IF Truthy(original)
          THEN /\ reload' = original
               /\ inflight' = Append(inflight,
                     Handler("restoreWorkspaceFolder", "openFolder", current, FALSE, FALSE))
          ELSE /\ reload' = reload
               /\ inflight' = Append(inflight, UpdateStarted(workspaceFolders))
       /\ UNCHANGED <<provVars, globalState, toolConfig, lastUse, shown, outsideOrch>>

\* up to `await vscode.openFolder(original)`, or, without a mapping, the
\* warning and updateSandboxContexts(); without a workspace root it returns
RestoreStart ==
    LET current == getWorkspaceCwd(workspaceFolders)
        original == recallOriginalForOverlay(globalState, current)
    IN /\ Truthy(current)
       /\ Len(inflight) < MaxInflight
       /\ IF Truthy(original)
          THEN /\ reload' = original
               /\ shown' = shown
               /\ inflight' = Append(inflight,
                     Handler("restoreWorkspaceFolder", "openFolder", current, FALSE, FALSE))
          ELSE /\ reload' = reload
               /\ shown' = "warning"
               /\ inflight' = Append(inflight, UpdateStarted(workspaceFolders))
       /\ UNCHANGED <<provVars, globalState, toolConfig, lastUse, outsideOrch>>

\* vscode.openFolder has returned and the window is still there:
\* forgetOverlayMapping(context, current)
RestoreForget ==
    \E i \in 1..Len(inflight) :
        /\ inflight[i].cmd = "restoreWorkspaceFolder"
        /\ inflight[i].pc = "openFolder"
        /\ globalState' = forgetOverlayMapping(globalState, inflight[i].current)
        /\ inflight' = [inflight EXCEPT ![i] =
              Handler("restoreWorkspaceFolder", "forgetOverlayMapping",
                      inflight[i].current, FALSE, FALSE)]
        /\ UNCHANGED <<provVars, toolConfig, lastUse, reload, shown, outsideOrch>>

\* globalState.update has returned: updateSandboxContexts()
RestoreUpdate ==
    \E i \in 1..Len(inflight) :
        /\ inflight[i].cmd = "restoreWorkspaceFolder"
        /\ inflight[i].pc = "forgetOverlayMapping"
        /\ inflight' = Append(RemoveAt(inflight, i), UpdateStarted(workspaceFolders))
        /\ UNCHANGED <<provVars, globalState, toolConfig, lastUse, reload, shown, outsideOrch>>

\* ---- sandbox.addOverlayFolder (lines 701-715) ----

HasPath(folders, p) == \E k \in 1..Len(folders) : folders[k].path = p

\* the config names an overlay: updateWorkspaceFolders(length, 0, overlay as
\* 'Sandbox Overlay'), which the host refuses for a folder it already has,
\* then updateSandboxContexts()
AddOverlayFolder ==
    \E i \in 1..Len(inflight), r \in ConfigResults(activationCwd) :
        /\ inflight[i].cmd = "addOverlayFolder"
        /\ inflight[i].pc = "fetchConfig"
        /\ r.ok
        /\ Truthy(r.overlay)
        /\ IF HasPath(workspaceFolders, r.overlay)
           THEN /\ inflight' = Append(RemoveAt(inflight, i), UpdateStarted(workspaceFolders))
                /\ UNCHANGED <<provVars, globalState, toolConfig, lastUse, reload, shown, outsideOrch>>
           ELSE /\ Len(workspaceFolders) < MaxFolders
                /\ LET new == Append(workspaceFolders, Folder("Sandbox Overlay", r.overlay))
                   IN FoldersChange(new, RemoveAt(inflight, i), <<UpdateStarted(new)>>)

\* ---- sandbox.removeOverlayFolder (lines 716-723) ----

\* folders.findIndex((f) => f.name === 'Sandbox Overlay'), 0 for -1
FindOverlayFolder(folders) ==
    IF \E k \in 1..Len(folders) : folders[k].name = "Sandbox Overlay"
    THEN CHOOSE k \in 1..Len(folders) :
            /\ folders[k].name = "Sandbox Overlay"
            /\ \A j \in 1..(k - 1) : folders[j].name # "Sandbox Overlay"
    ELSE 0

RemoveOverlayFolder ==
    LET idx == FindOverlayFolder(workspaceFolders)
    IN IF idx > 0
       THEN LET new == RemoveAt(workspaceFolders, idx)
            IN FoldersChange(new, inflight, <<UpdateStarted(new)>>)
       ELSE /\ Len(inflight) < MaxInflight
            /\ inflight' = Append(inflight, UpdateStarted(workspaceFolders))
            /\ UNCHANGED <<provVars, globalState, toolConfig, lastUse, reload, shown, outsideOrch>>

\* ---- sandbox.refresh (line 576) ----

Refresh ==
    /\ refreshes' = Fired(refreshes)
    /\ UNCHANGED <<workspaceFolders, workspaceFolder, inOverlayRoot, hasOriginalWorkspace,
                   changes, statusFails, element, fetched, children, orchVars, outsideOrch>>

\* ---- the host and the user ----

\* the user adds a folder to the window
UserAddFolder ==
    \E p \in Paths :
        /\ ~HasPath(workspaceFolders, p)
        /\ Len(workspaceFolders) < MaxFolders
        /\ FoldersChange(Append(workspaceFolders, Folder(Basename(p), p)), inflight, <<>>)

\* the user removes a folder from the window
UserRemoveFolder ==
    \E k \in 1..Len(workspaceFolders) :
        FoldersChange(RemoveAt(workspaceFolders, k), inflight, <<>>)

\* vscode.openFolder takes effect: the window reloads on the folder
WindowReload ==
    /\ reload # Undefined
    /\ Activate(<<Folder(Basename(reload), reload)>>)

\* the host serves the change events: getChildren() for the root
RenderRoot ==
    LET res == getChildren(RootElement, workspaceFolders, workspaceFolder, inOverlayRoot,
                           hasOriginalWorkspace, changes, statusFails)
    IN /\ element' = RootElement
       /\ children' = res.nodes
       /\ fetched' = res.fetched
       /\ refreshes' = 0
       /\ UNCHANGED <<workspaceFolders, workspaceFolder, inOverlayRoot,
                      hasOriginalWorkspace, changes, statusFails, orchVars, outsideOrch>>

\* the user expands a workspace-folder node of a multi-root window
RenderWorkspaceFolder ==
    \E i \in 1..Len(children) :
        /\ children[i].op = "workspace"
        /\ CallGetChildren(children[i])

Next ==
    \/ UpdateConfig
    \/ UpdateApply
    \/ ConfigCommandStart
    \/ ConfigError
    \/ ErrorDismissed
    \/ UseOverlayRemember
    \/ UseOverlayOpenFolder
    \/ UseOverlayUpdate
    \/ RestoreStart
    \/ RestoreForget
    \/ RestoreUpdate
    \/ AddOverlayFolder
    \/ RemoveOverlayFolder
    \/ Refresh
    \/ UserAddFolder
    \/ UserRemoveFolder
    \/ WindowReload

Spec == OrchInit /\ [][Next]_vars

\* the tree view over a window whose folders change: the context updates,
\* the folder changes, the refreshes and the host's getChildren calls
ViewNext ==
    \/ UpdateConfig
    \/ UpdateApply
    \/ Refresh
    \/ UserAddFolder
    \/ UserRemoveFolder
    \/ RenderRoot
    \/ RenderWorkspaceFolder

SpecView == OrchInit /\ [][ViewNext]_vars

----------------------------------------------------------------------------
(* extension.ts: the commands that change the sandbox: SpecCmd *)

MutatingCommands == {"accept", "reject", "sync", "stop", "delete"}

\* the gateway function a command calls inside withProgress
GatewayOf(cmd) ==
    CASE cmd = "accept" -> "runAccept"
      [] cmd = "reject" -> "runReject"
      [] cmd = "sync" -> "runSync"
      [] cmd = "stop" -> "runStop"
      [] cmd = "delete" -> "runDelete"

\* the argument a command is invoked with: not an array of strings, or one
CommandArgs ==
    { [array |-> FALSE, list |-> <<>>],
      [array |-> TRUE, list |-> <<>>],
      [array |-> TRUE, list |-> <<P_w_a>>] }

\* what the user leaves in the input box; Undefined when it is cancelled
InputTexts ==
    {Undefined, <<>>, <<"a">>, <<" ">>, <<",">>, <<"a", ",", " ", "b">>}

\* .map((s) => s.trim()).filter((s) => s.length > 0)
TrimmedNonEmpty(parts) ==
    SelectSeq([i \in 1..Len(parts) |-> Trim(parts[i])], LAMBDA s : s # <<>>)

\* ensurePatterns after the input box: undefined, or the list of patterns
PatternsOfInput(input) ==
    IF ~Truthy(input) THEN [defined |-> FALSE, list |-> <<>>]
    ELSE [defined |-> TRUE, list |-> TrimmedNonEmpty(Split(input, ","))]

CmdInit ==
    /\ running = NoInvocation
    /\ trace = <<>>
    /\ confirm = "none"
    /\ DiffCmdIdle
    /\ TermIdle
    /\ changes = <<>>
    /\ ProviderIdle
    /\ HelpersIdle
    /\ DiffIdle
    /\ GlobIdle
    /\ OrchIdle
    /\ GateIdle

provFrame ==
    <<workspaceFolders, workspaceFolder, inOverlayRoot, hasOriginalWorkspace,
      changes, statusFails, element, fetched, children>>

gateFrame == <<settings, cliFunction, cliPatterns, errText, errShown>>

\* withProgress(..., async () => { await run<Cmd>(...) }) up to the spawn
Spawn(cmd, patterns) ==
    /\ running' = Invocation(cmd, "execFile", patterns, NoError)
    /\ argv' = CliArgs(settings, GatewayOf(cmd), patterns)
    /\ trace' = <<"spawn">>

\* the handler returns without a call
ReturnEarly(cmd) ==
    /\ running' = Invocation(cmd, "idle", <<>>, NoError)
    /\ argv' = <<>>
    /\ trace' = <<>>

\* the handler of a command up to its first await
Invoke(cmd, arg) ==
    /\ running.pc = "idle"
    /\ IF cmd \in {"accept", "reject"}
       THEN IF arg.array
            THEN Spawn(cmd, arg.list)
            ELSE /\ running' = Invocation(cmd, "showInputBox", <<>>, NoError)
                 /\ argv' = <<>>
                 /\ trace' = <<>>
       ELSE IF cmd = "delete"
            THEN /\ running' = Invocation(cmd, "showWarningMessage", <<>>, NoError)
                 /\ argv' = <<>>
                 /\ trace' = <<>>
            ELSE Spawn(cmd, <<>>)
    /\ procEnd' = ProcessEnd(TRUE, 0, "", "")
    /\ cliResult' = Returned(JUndefined)
    /\ confirm' = "none"
    /\ UNCHANGED <<gateFrame, refreshes, provFrame, outsideCmd>>

\* the input box of ensurePatterns closes
InputGiven(input) ==
    /\ running.pc = "showInputBox"
    /\ LET patterns == PatternsOfInput(input)
       IN IF patterns.defined
          THEN Spawn(running.cmd, patterns.list)
          ELSE ReturnEarly(running.cmd)
    /\ UNCHANGED <<confirm, procEnd, cliResult, gateFrame, refreshes, provFrame, outsideCmd>>

\* a confirmation whose answer is not looked at
Confirmed_AnyAnswer(answer) ==
    /\ running.pc = "showWarningMessage"
    /\ confirm' = answer
    /\ Spawn(running.cmd, <<>>)
    /\ UNCHANGED <<procEnd, cliResult, gateFrame, refreshes, provFrame, outsideCmd>>

\* the modal confirmation of delete closes
Confirmed(answer) ==
    /\ running.pc = "showWarningMessage"
    /\ confirm' = answer
    /\ IF answer = "Delete" THEN Spawn(running.cmd, <<>>) ELSE ReturnEarly(running.cmd)
    /\ UNCHANGED <<procEnd, cliResult, gateFrame, refreshes, provFrame, outsideCmd>>

\* the handler after withProgress: treeProvider.refresh()
Completes ==
    /\ running' = [running EXCEPT !.pc = "idle"]
    /\ refreshes' = Fired(refreshes)

\* the 'close' event of the child process: the run function returns, or
\* throws and withProgress calls handleCliError up to showErrorMessage
ProcessClosed(end) ==
    /\ running.pc = "execFile"
    /\ procEnd' = end
    /\ LET outcome == GatewayOutcome(GatewayOf(running.cmd), end)
       IN /\ cliResult' = outcome
          /\ IF outcome.ok
             THEN /\ Completes
                  /\ trace' = trace \o <<"close", "refresh">>
             ELSE /\ running' = [running EXCEPT !.pc = "showErrorMessage",
                                                 !.message = outcome.message]
                  /\ trace' = trace \o <<"close", "showErrorMessage">>
                  /\ refreshes' = refreshes
    /\ UNCHANGED <<confirm, argv, gateFrame, provFrame, outsideCmd>>

\* the process cannot be spawned: the child emits 'error', which nothing
\* listens to, and no 'close'; the promise of execFile never settles
SpawnFailed ==
    /\ running.pc = "execFile"
    /\ running' = [running EXCEPT !.pc = "pending"]
    /\ trace' = Append(trace, "error")
    /\ UNCHANGED <<confirm, refreshes, procEnd, cliResult, argv, gateFrame, provFrame, outsideCmd>>

\* an error dialog that returns without the refresh
ErrorHandled_NoRefresh(action) ==
    /\ running.pc = "showErrorMessage"
    /\ action \in {"undefined", "Open Settings"}
    /\ running' = [running EXCEPT !.pc = "idle"]
    /\ trace' = trace
    /\ UNCHANGED <<confirm, refreshes, procEnd, cliResult, argv, gateFrame, provFrame, outsideCmd>>

\* showErrorMessage closes (dismissed, or 'Open Settings' chosen and the
\* settings opened); withProgress returns undefined and the handler goes on
ErrorHandled(action) ==
    /\ running.pc = "showErrorMessage"
    /\ action \in {"undefined", "Open Settings"}
    /\ Completes
    /\ trace' = Append(trace, "refresh")
    /\ UNCHANGED <<confirm, procEnd, cliResult, argv, gateFrame, provFrame, outsideCmd>>

CmdNext ==
    \/ \E cmd \in MutatingCommands, arg \in CommandArgs : Invoke(cmd, arg)
    \/ \E input \in InputTexts : InputGiven(input)
    \/ \E answer \in {"Delete", "undefined"} : Confirmed(answer)
    \/ \E end \in ProcessEnds : ProcessClosed(end)
    \/ SpawnFailed
    \/ \E action \in {"undefined", "Open Settings"} : ErrorHandled(action)

SpecCmd == CmdInit /\ [][CmdNext]_vars

\* the error dialog is closed at some time
CmdFairness == WF_vars(\E action \in {"undefined", "Open Settings"} : ErrorHandled(action))

SpecCmdLive == SpecCmd /\ CmdFairness

----------------------------------------------------------------------------
(* extension.ts: handleCliError: SpecErr *)

UpperCase == <<"A", "B", "C", "D", "E", "F", "G", "H", "I", "J", "K", "L", "M",
               "N", "O", "P", "Q", "R", "S", "T", "U", "V", "W", "X", "Y", "Z">>

LowerCase == <<"a", "b", "c", "d", "e", "f", "g", "h", "i", "j", "k", "l", "m",
               "n", "o", "p", "q", "r", "s", "t", "u", "v", "w", "x", "y", "z">>

\* case folding of one character, as the i flag of a RegExp compares
Fold(ch) ==
    IF \E i \in 1..26 : UpperCase[i] = ch
    THEN LowerCase[CHOOSE i \in 1..26 : UpperCase[i] = ch]
    ELSE ch

FoldAll(s) == [i \in 1..Len(s) |-> Fold(s[i])]

\* the literal text occurs somewhere in s, whatever the case of the letters
ContainsIgnoringCase(s, text) ==
    \E i \in 1..(Len(s) - Len(text) + 1) :
        FoldAll(SubSeq(s, i, i + Len(text) - 1)) = FoldAll(text)

W_insufficient == <<"I", "n", "s", "u", "f", "f", "i", "c", "i", "e", "n", "t", " ",
                    "p", "e", "r", "m", "i", "s", "s", "i", "o", "n", "s">>
W_setuid == <<"s", "e", "t", "u", "i", "d">>
W_sudo == <<"s", "u", "d", "o">>
W_ENOENT == <<"E", "N", "O", "E", "N", "T">>
W_not_found == <<"n", "o", "t", " ", "f", "o", "u", "n", "d">>

\* message.match(/Insufficient permissions|setuid|sudo/i)
MatchesPermission(message) ==
    \/ ContainsIgnoringCase(message, W_insufficient)
    \/ ContainsIgnoringCase(message, W_setuid)
    \/ ContainsIgnoringCase(message, W_sudo)

\* message.match(/ENOENT|not found/i)
MatchesNotFound(message) ==
    \/ ContainsIgnoringCase(message, W_ENOENT)
    \/ ContainsIgnoringCase(message, W_not_found)

\* the two suffixes, each as the blank line and the sentence
SetuidHint ==
    <<"\n", "\n", "The sandbox CLI requires setuid root. Try installing with: make install">>

BinaryPathHint ==
    <<"\n", "\n", "Check the setting sandbox.binaryPath or ensure 'sandbox' is on your PATH.">>

\* a message text that gets both suffixes when it matches both patterns
Friendly_BothHints(message) ==
    message
    \o (IF MatchesPermission(message) THEN SetuidHint ELSE <<>>)
    \o (IF MatchesNotFound(message) THEN BinaryPathHint ELSE <<>>)

\* handleCliError: the text given to showErrorMessage
Friendly(message) ==
    IF MatchesPermission(message) THEN message \o SetuidHint
    ELSE IF MatchesNotFound(message) THEN message \o BinaryPathHint
    ELSE message

\* words that error texts of the tool and of the host are made of
Words ==
    { <<"f", "a", "i", "l", "e", "d">>,
      <<"S", "e", "t", "U", "I", "D">>,
      <<"s", "u", "d", "o", ":">>,
      <<"E", "N", "O", "E", "N", "T">>,
      <<"N", "o", "t", " ", "f", "o", "u", "n", "d">>,
      <<"n", "o", "t">>,
      <<"f", "o", "u", "n", "d">>,
      <<"i", "n", "s", "u", "f", "f", "i", "c", "i", "e", "n", "t", " ",
        "p", "e", "r", "m", "i", "s", "s", "i", "o", "n", "s">> }

MaxWords == 2

\* the error texts: up to MaxWords words with a blank between them
ErrorTexts ==
    { Join(ws, " ") : ws \in SeqsUpTo(Words, MaxWords) }

ErrInit ==
    /\ errText \in ErrorTexts
    /\ errShown = Undefined
    /\ settings = NoSettings
    /\ cliFunction = "none"
    /\ cliPatterns = <<>>
    /\ procEnd = ProcessEnd(TRUE, 0, "", "")
    /\ cliResult = Returned(JUndefined)
    /\ argv = <<>>
    /\ changes = <<>>
    /\ ProviderIdle
    /\ HelpersIdle
    /\ DiffIdle
    /\ GlobIdle
    /\ OrchIdle
    /\ CmdIdle
    /\ DiffCmdIdle
    /\ TermIdle

\* handleCliError(err) up to showErrorMessage(friendly, 'Open Settings')
HandleCliError ==
    /\ errShown = Undefined
    /\ errShown' = Friendly(errText)
    /\ UNCHANGED <<settings, cliFunction, cliPatterns, procEnd, cliResult, argv, errText,
                   outsideGate>>

ErrNext == HandleCliError

SpecErr == ErrInit /\ [][ErrNext]_vars

----------------------------------------------------------------------------
(* Properties of the helpers of tree.ts *)

Range(q) == {q[i] : i \in 1..Len(q)}

\* C1: groupByOperation produces groups in which every entry's operation
\* equals the group key; the groups have distinct keys and together hold
\* exactly the input entries, each group being the input entries of its
\* operation in input order (nothing dropped, nothing twice).
C1_GroupsPartitionInput ==
    "groupByOperation" \in applied =>
        /\ \A i \in 1..Len(groups) : \A k \in 1..Len(groups[i].list) :
              groups[i].list[k].operation = groups[i].key
        /\ \A i, j \in 1..Len(groups) : groups[i].key = groups[j].key => i = j
        /\ \A i \in 1..Len(groups) :
              groups[i].list = SelectSeq(changes, LAMBDA c : c.operation = groups[i].key)
        /\ \A k \in 1..Len(changes) :
              \E i \in 1..Len(groups) : groups[i].key = changes[k].operation

\* two different entries of one operation with an entry of another between them
C1_Witness ==
    /\ "groupByOperation" \in applied
    /\ Len(changes) = 3
    /\ Len(groups) = 2
    /\ changes[1].operation = changes[3].operation
    /\ changes[1] # changes[3]

RECURSIVE LeavesOf(_, _)
\* the leaves of a Map of buildDirectoryHierarchy, each with the keys on the
\* way from the root to it
LeavesOf(m, prefix) ==
    UNION { IF m[k].kind = "leaf"
            THEN {[path |-> Append(prefix, k), change |-> m[k].change]}
            ELSE LeavesOf(m[k].map, Append(prefix, k)) : k \in DOMAIN m }

\* the destination with the prefix `cwd/` taken off when it starts with it
C2_Stripped(c, dir) ==
    LET prefix == dir \o <<"/">>
    IN IF Len(c.destination) >= Len(prefix) /\ SubSeq(c.destination, 1, Len(prefix)) = prefix
       THEN SubSeq(c.destination, Len(prefix) + 1, Len(c.destination))
       ELSE c.destination

RECURSIVE C2_Squeeze(_, _)
\* s without the '/' that start it or follow a '/'
C2_Squeeze(s, afterSlash) ==
    IF s = <<>> THEN <<>>
    ELSE IF s[1] = "/"
         THEN (IF afterSlash THEN <<>> ELSE <<"/">>) \o C2_Squeeze(Tail(s), TRUE)
         ELSE <<s[1]>> \o C2_Squeeze(Tail(s), FALSE)

\* s without leading, trailing and repeated '/'
C2_NoEmptySegments(s) ==
    LET q == C2_Squeeze(s, TRUE)
    IN IF q # <<>> /\ q[Len(q)] = "/" THEN SubSeq(q, 1, Len(q) - 1) ELSE q

\* C2 as stated: every leaf of the hierarchy holds an input entry, and the
\* names from the root to the leaf, joined by '/', equal the entry's
\* destination with the 'cwd/' prefix stripped when it starts with it.
C2_LeafPathIsStrippedDestination ==
    "buildDirectoryHierarchy" \in applied =>
        \A l \in LeavesOf(root, <<>>) :
            /\ l.change \in Range(changes)
            /\ Join(l.path, "/") = C2_Stripped(l.change, cwd)

\* C2 amended: every leaf of the hierarchy holds an input entry, and the
\* names from the root to the leaf, joined by '/', equal the entry's
\* destination with the 'cwd/' prefix stripped when it starts with it and
\* with the empty segments removed (no leading, trailing or repeated '/').
C2_LeafPathIsStrippedSegments ==
    "buildDirectoryHierarchy" \in applied =>
        \A l \in LeavesOf(root, <<>>) :
            /\ l.change \in Range(changes)
            /\ l.path # <<>>
            /\ Join(l.path, "/") = C2_NoEmptySegments(C2_Stripped(l.change, cwd))

\* a hierarchy with a leaf below cwd, a leaf outside it and a leaf whose
\* destination repeats a '/'
C2_Witness ==
    /\ "buildDirectoryHierarchy" \in applied
    /\ cwd = P_w
    /\ \E l1, l2, l3 \in LeavesOf(root, <<>>) :
          /\ l1.change.destination = P_v_a
          /\ l2.change.destination = P_w_b_a
          /\ l3.change.destination = P_w__a

----------------------------------------------------------------------------
(* Properties of the diff resolver *)

\* the overlay copy of the resolver table: staged when set and non-empty,
\* else tmp_path when set and non-empty, else the destination
C4_OverlayCopy(c) ==
    IF c.staged # Undefined /\ Len(c.staged) > 0 THEN c.staged
    ELSE IF c.tmp_path # Undefined /\ Len(c.tmp_path) > 0 THEN c.tmp_path
    ELSE c.destination

C3_DestReadable == diffChange.destination \in fsReadable

C3_SourceReadable ==
    /\ diffChange.source # Undefined
    /\ diffChange.source # <<>>
    /\ diffChange.source \in fsReadable

\* destination if readable, else source if readable, else an empty file
C3_DestinationFirst ==
    IF C3_DestReadable THEN diffCall.left = [kind |-> "file", path |-> diffChange.destination]
    ELSE IF C3_SourceReadable THEN diffCall.left = [kind |-> "file", path |-> diffChange.source]
    ELSE diffCall.left.kind = "empty"

\* source if readable, else destination if readable, else an empty file
C3_SourceFirst ==
    IF C3_SourceReadable THEN diffCall.left = [kind |-> "file", path |-> diffChange.source]
    ELSE IF C3_DestReadable THEN diffCall.left = [kind |-> "file", path |-> diffChange.destination]
    ELSE diffCall.left.kind = "empty"

\* C3: for every entry and every combination of readable destination and
\* source, the sides handed to the diff viewer are those of the resolver
\* table: create -> empty file | overlay copy; remove -> destination, else
\* source, else empty file | empty file; rename -> source, else destination,
\* else empty file | overlay copy; modify and any other operation ->
\* destination, else source, else empty file | overlay copy.
C3_SidesFollowResolverTable ==
    diffCall.called =>
        /\ diffChange.operation = "create" =>
              /\ diffCall.left.kind = "empty"
              /\ diffCall.right.kind = "file"
        /\ diffChange.operation = "remove" =>
              /\ C3_DestinationFirst
              /\ diffCall.right.kind = "empty"
        /\ diffChange.operation = "rename" =>
              /\ C3_SourceFirst
              /\ diffCall.right.kind = "file"
        /\ diffChange.operation \notin {"create", "remove", "rename"} =>
              /\ C3_DestinationFirst
              /\ diffCall.right.kind = "file"
        /\ diffCall.right.kind = "file" =>
              diffCall.right.path \in
                  {diffChange.staged, diffChange.tmp_path, diffChange.destination}

\* a remove entry whose destination is unreadable and whose source is
\* readable, shown as source against an empty file; reached as well for a
\* rename entry with both files readable
C3_Witness ==
    /\ diffCall.called
    /\ diffChange.operation = "remove"
    /\ ~C3_DestReadable
    /\ C3_SourceReadable
    /\ diffCall.left = [kind |-> "file", path |-> diffChange.source]
    /\ diffCall.right.kind = "empty"

\* C4: the overlay copy used as a diff side is the staged field when set and
\* non-empty, else the tmp_path field when set and non-empty, else the
\* destination, whichever of these files exist.
C4_OverlayCopyPriority ==
    (diffCall.called /\ diffCall.right.kind = "file") =>
        diffCall.right.path = C4_OverlayCopy(diffChange)

\* staged is the empty string, tmp_path is set, and neither the tmp_path file
\* nor the destination is readable
C4_Witness ==
    /\ diffCall.called
    /\ diffCall.right.kind = "file"
    /\ diffChange.staged = <<>>
    /\ diffChange.tmp_path = D_tmp
    /\ diffCall.right.path = D_tmp
    /\ fsReadable = {}

----------------------------------------------------------------------------
(* Properties of the glob matcher *)

RECURSIVE C5_GlobAccepts(_, _)
\* the restricted glob over the whole string: '**' is any run of characters,
\* '*' any run without '/', every other character stands for itself
C5_GlobAccepts(p, d) ==
    IF p = <<>> THEN d = <<>>
    ELSE IF Len(p) >= 2 /\ p[1] = "*" /\ p[2] = "*"
    THEN \E k \in 0..Len(d) : C5_GlobAccepts(SubSeq(p, 3, Len(p)), SubSeq(d, k + 1, Len(d)))
    ELSE IF p[1] = "*"
    THEN \E k \in 0..Len(d) :
            /\ \A i \in 1..k : d[i] # "/"
            /\ C5_GlobAccepts(Tail(p), SubSeq(d, k + 1, Len(d)))
    ELSE d # <<>> /\ d[1] = p[1] /\ C5_GlobAccepts(Tail(p), Tail(d))

\* C5: for every pattern and destination the matcher built by globToRegex
\* accepts the destination exactly when the pattern matches it as a
\* restricted glob over the whole string, every character other than '*'
\* (also '?', '-', ':' and the regex metacharacters) matching only itself.
C5_MatcherIsRestrictedGlob ==
    globResult # "none" =>
        (globResult = "match" <=> C5_GlobAccepts(globPattern, globDestination))

\* C6: 'a/*.ts' matches 'a/b.ts' and not 'a/b/c.ts'; 'a/**' matches
\* 'a/b/c.ts' and 'a/x'; 'lit.txt' matches 'lit.txt' and no other string.
C6_GlobExamples ==
    globResult # "none" =>
        /\ (globPattern = Str_a_star_ts /\ globDestination = Str_a_b_ts)
              => globResult = "match"
        /\ (globPattern = Str_a_star_ts /\ globDestination = Str_a_b_c_ts)
              => globResult = "nomatch"
        /\ (globPattern = Str_a_starstar /\ globDestination \in {Str_a_b_c_ts, Str_a_x})
              => globResult = "match"
        /\ globPattern = Str_lit_txt
              => (IF globDestination = Str_lit_txt
                  THEN globResult = "match"
                  ELSE globResult = "nomatch")

\* 'lit.txt' has been tested on the string that has an 'x' in place of the '.'
C6_Witness ==
    /\ globPattern = Str_lit_txt
    /\ globDestination = Str_litxtxt
    /\ globResult = "nomatch"

----------------------------------------------------------------------------
(* Properties of the tree provider *)

\* the last getChildren call rendered the root-level nodes of a folder: it
\* queried the status and the query succeeded
RenderedFolder == fetched # <<>> /\ ~statusFails

\* the operation group nodes among the rendered nodes
GroupNodesOf(nodes) == SelectSeq(nodes, LAMBDA n : n.label[1] = "group")

\* place of an operation in the presentation order: the fixed five first,
\* then the other operations by their first occurrence in the change list
C7_Rank(op) ==
    IF op = "error" THEN 1
    ELSE IF op = "remove" THEN 2
    ELSE IF op = "rename" THEN 3
    ELSE IF op = "modify" THEN 4
    ELSE IF op = "create" THEN 5
    ELSE 5 + (CHOOSE k \in 1..Len(changes) :
                 /\ changes[k].operation = op
                 /\ \A j \in 1..(k - 1) : changes[j].operation # op)

\* C7: the group nodes of a folder appear in the order error, remove,
\* rename, modify, create, then the other operations in the order they first
\* appear in the change list; there is exactly one group node per operation
\* that has an entry, and the group nodes follow the other nodes.
C7_GroupOrder ==
    RenderedFolder =>
        LET gs == GroupNodesOf(children)
        IN /\ \A i, j \in 1..Len(gs) : i < j => C7_Rank(gs[i].op) < C7_Rank(gs[j].op)
           /\ {gs[i].op : i \in 1..Len(gs)} = {changes[k].operation : k \in 1..Len(changes)}
           /\ \A i, j \in 1..Len(children) :
                 (i < j /\ children[i].label[1] = "group") => children[j].label[1] = "group"

\* the tool reported an unknown operation before an error entry, and the
\* error group is shown first
C7_Witness ==
    /\ RenderedFolder
    /\ Len(changes) = 2
    /\ changes[1].operation = "chmod"
    /\ changes[2].operation = "error"
    /\ Len(GroupNodesOf(children)) = 2
    /\ GroupNodesOf(children)[1].op = "error"
    /\ GroupNodesOf(children)[2].op = "chmod"

\* label and command of the children of the Actions node among nodes
ActionsShown(nodes) ==
    LET acts == SelectSeq(nodes, LAMBDA n : n.op = "actions")
    IN IF Len(acts) = 1
       THEN [i \in 1..Len(acts[1].children) |->
               <<acts[1].children[i].label[2], acts[1].children[i].command.command>>]
       ELSE <<<<"not one Actions node", "">>>>

C9_FullList ==
    << <<"Enter Sandbox", "sandbox.enter">>,
       <<"Refresh", "sandbox.refresh">>,
       <<"Sync", "sandbox.sync">>,
       <<"Stop", "sandbox.stop">>,
       <<"Delete", "sandbox.delete">>,
       <<"Add Overlay as Folder", "sandbox.addOverlayFolder">>,
       <<"Remove Overlay Folder", "sandbox.removeOverlayFolder">>,
       <<"Use Overlay in Explorer", "sandbox.useOverlayInExplorer">>,
       <<"Restore Workspace Folder", "sandbox.restoreWorkspaceFolder">>,
       <<"Show Config", "sandbox.showConfig">> >>

\* the Actions children the rendered nodes must show for the provider's flags
C9_ActionsAsFlagsSay ==
    RenderedFolder =>
        ActionsShown(children) =
            IF inOverlayRoot
            THEN IF hasOriginalWorkspace
                 THEN << <<"Enter Sandbox", "sandbox.enter">>,
                         <<"Restore Workspace Folder", "sandbox.restoreWorkspaceFolder">> >>
                 ELSE << <<"Enter Sandbox", "sandbox.enter">> >>
            ELSE C9_FullList

\* C9: every getChildren call that renders a folder gives the Actions node
\* these children: with the provider in overlay root, 'Enter Sandbox' plus
\* 'Restore Workspace Folder' exactly when the provider has a mapping to an
\* original workspace (its hasOriginalWorkspace flag); otherwise the full
\* action list in its fixed order, whatever the mapping flag.
C9_ActionsChildren ==
    [][(<<element, children, fetched>>' # <<element, children, fetched>>)
          => C9_ActionsAsFlagsSay']_vars

\* a folder rendered in overlay root without a mapping shows the one action
C9_Witness ==
    /\ RenderedFolder
    /\ inOverlayRoot
    /\ ~hasOriginalWorkspace
    /\ ActionsShown(children) = << <<"Enter Sandbox", "sandbox.enter">> >>

----------------------------------------------------------------------------
(* Properties of the command orchestrator *)

\* the 'Overlay active' node is among the rendered nodes
C8_IndicatorShown == \E i \in 1..Len(children) : children[i].op = "info"

\* the current root is the overlay the tool's config reports for it
C8_RootIsReportedOverlay ==
    /\ Len(workspaceFolders) > 0
    /\ LET current == getWorkspaceCwd(workspaceFolders)
       IN /\ Truthy(OverlayOf(toolConfig[current]))
          /\ OverlayOf(toolConfig[current]) = current

\* C8: whenever the tree renders the root-level nodes of a folder, the
\* 'Overlay active' indicator is present only if the current root equals the
\* overlay/upper directory the tool's config reports, after any sequence of
\* folder changes, config-fetch failures and refreshes.  Stated here for the
\* renderings made while no context update is in flight, which the claim
\* covers; the code violates even this.
C8_IndicatorOnlyInOverlayRoot ==
    [][(/\ <<element, children, fetched>>' # <<element, children, fetched>>
        /\ RenderedFolder'
        /\ inflight' = <<>>)
          => (C8_IndicatorShown' => C8_RootIsReportedOverlay')]_vars

\* a suspended sandbox.useOverlayInExplorer whose config call is outstanding
C10_UseOverlayAwaitsConfig ==
    \E i \in 1..Len(inflight) :
        /\ inflight[i].cmd = "useOverlayInExplorer"
        /\ inflight[i].pc = "fetchConfig"

\* a suspended sandbox.restoreWorkspaceFolder that was run in root p, found a
\* mapping and has not yet forgotten it
C10_RestoreRunIn(p) ==
    \E i \in 1..Len(inflight) :
        /\ inflight[i].cmd = "restoreWorkspaceFolder"
        /\ inflight[i].pc = "openFolder"
        /\ inflight[i].current = p

\* C10: the entry 'overlayMap:' + O is written only by 'Use Overlay in
\* Explorer' resolving the overlay path O, with the workspace root of that
\* moment as value; it is removed only by a 'Restore Workspace Folder' that
\* was run while the current root was O; when that restore has forgotten the
\* mapping no entry for O remains; a restore is run in the root of the
\* moment; and no other step changes any entry.
C10_OverlayMapFrame ==
    [][/\ \A o \in Paths :
            globalState'[o] # globalState[o] =>
               \/ /\ globalState'[o] # Undefined
                  /\ C10_UseOverlayAwaitsConfig
                  /\ OverlayOf(toolConfig[activationCwd]) = o
                  /\ globalState'[o] = getWorkspaceCwd(workspaceFolders)
               \/ /\ globalState'[o] = Undefined
                  /\ C10_RestoreRunIn(o)
       /\ \A i \in 1..Len(inflight) :
            (/\ inflight[i].cmd = "restoreWorkspaceFolder"
             /\ inflight[i].pc = "openFolder"
             /\ inflight' = [inflight EXCEPT ![i].pc = "forgetOverlayMapping"])
               => globalState'[inflight[i].current] = Undefined
       /\ (/\ Len(inflight') = Len(inflight) + 1
           /\ inflight'[Len(inflight')].cmd = "restoreWorkspaceFolder")
               => inflight'[Len(inflight')].current = getWorkspaceCwd(workspaceFolders)
      ]_vars

\* a restore run in /o while the mapping /o -> /w was recorded has forgotten
\* the mapping, in a window reopened on /o by 'Use Overlay in Explorer'
C10_Witness ==
    /\ workspaceFolders = <<Folder("o", P_o)>>
    /\ globalState[P_o] = Undefined
    /\ reload = P_w
    /\ \E i \in 1..Len(inflight) :
          /\ inflight[i].cmd = "restoreWorkspaceFolder"
          /\ inflight[i].pc = "forgetOverlayMapping"
          /\ inflight[i].current = P_o

\* the root a restore is run in
C11_Root == getWorkspaceCwd(workspaceFolders)

\* C11: round trip.  A 'Restore Workspace Folder' run while the current root
\* is O, with a mapping recorded for O, reopens exactly the root R from which
\* the most recent 'Use Overlay in Explorer' resolving O was run (the root
\* that command read when it resolved O), and a restore reopens no other
\* folder.
C11_RoundTrip ==
    [][RestoreStart =>
          /\ Truthy(recallOriginalForOverlay(globalState, C11_Root)) =>
                /\ Truthy(lastUse[C11_Root])
                /\ reload' = lastUse[C11_Root]
          /\ reload' # reload => reload' = lastUse[C11_Root]]_vars

\* in a window on /o, opened by a 'Use Overlay in Explorer' run from /w, a
\* restore has asked the host to reopen /w
C11_Witness ==
    /\ workspaceFolders = <<Folder("o", P_o)>>
    /\ lastUse[P_o] = P_w
    /\ globalState[P_o] = P_w
    /\ reload = P_w
    /\ \E i \in 1..Len(inflight) :
          /\ inflight[i].cmd = "restoreWorkspaceFolder"
          /\ inflight[i].pc = "openFolder"
          /\ inflight[i].current = P_o

\* C12: when 'Restore Workspace Folder' is run and no mapping is recorded
\* for the current root path, a warning is shown, no folder is reopened and
\* the persisted mappings are left unchanged.
C12_RestoreWithoutMapping ==
    [][(RestoreStart /\ ~Truthy(recallOriginalForOverlay(globalState, C11_Root)))
          => /\ shown' = "warning"
             /\ reload' = reload
             /\ globalState' = globalState
             /\ \A i \in 1..Len(inflight') :
                   inflight'[i].cmd = "restoreWorkspaceFolder" =>
                      i <= Len(inflight) /\ inflight'[i] = inflight[i]]_vars

\* a restore run in /w, for which nothing is recorded, has warned and has
\* gone on to the context update
C12_Witness ==
    /\ workspaceFolders = <<Folder("w", P_w)>>
    /\ shown = "warning"
    /\ reload = Undefined
    /\ globalState = EmptyGlobalState
    /\ Len(inflight) > 0
    /\ inflight[Len(inflight)] = UpdateStarted(workspaceFolders)

----------------------------------------------------------------------------
(* Properties of the commands that change the sandbox *)

\* the external call of the running command has finished
C13_CallFinished == \E i \in 1..Len(trace) : trace[i] = "close"

\* the refresh event was fired after the call finished, as the last event
C13_RefreshedAfterCall ==
    /\ Len(trace) >= 3
    /\ trace[1] = "spawn"
    /\ trace[Len(trace)] = "refresh"
    /\ \E i \in 2..(Len(trace) - 1) : trace[i] = "close"

\* C13: for accept, reject, sync, stop and delete, once the external call
\* has been started, the refresh event is fired after the call finishes:
\* in the step of the close event when the exit code is 0, and after the
\* error message is closed when the call failed; a handler that started the
\* call never returns without having fired it.
C13_RefreshOnCompletion ==
    /\ [](C13_CallFinished =>
             \/ C13_RefreshedAfterCall /\ running.pc = "idle"
             \/ running.pc = "showErrorMessage" /\ ~cliResult.ok)
    /\ []((running.pc = "idle" /\ trace # <<>>) => C13_RefreshedAfterCall)
    /\ [][(\E end \in ProcessEnds : ProcessClosed(end)) /\ cliResult'.ok
             => C13_RefreshedAfterCall' /\ refreshes' = Fired(refreshes)]_vars
    /\ (C13_CallFinished ~> C13_RefreshedAfterCall)

C13_Witness ==
    /\ running.cmd = "delete"
    /\ running.pc = "idle"
    /\ procEnd.exited /\ procEnd.code = 1
    /\ ~cliResult.ok
    /\ trace = <<"spawn", "close", "showErrorMessage", "refresh">>
    /\ refreshes > 0

----------------------------------------------------------------------------
(* Properties of the CLI gateway *)

\* the gateway function has been called and its process has ended
Called == argv # <<>>

RunFunctions == {"runAccept", "runReject", "runSync", "runStop", "runDelete"}

\* the process ended with an exit code, and it is c
ExitedWith(c) == procEnd.exited /\ procEnd.code = c

\* the captured stderr, or the captured stdout when stderr is empty
CapturedOutput == IF procEnd.stderr = "" THEN procEnd.stdout ELSE procEnd.stderr

\* C14: runAccept, runReject, runSync, runStop and runDelete fail whenever
\* the process ends with an exit code other than 0, with the message stderr,
\* or stdout when stderr is empty; they succeed only when the exit code is 0.
C14_RunFailsIffExitNonZero ==
    (Called /\ cliFunction \in RunFunctions) =>
        /\ (procEnd.exited /\ procEnd.code # 0) =>
              /\ ~cliResult.ok
              /\ cliResult.message = ErrorMessage("", CapturedOutput)
        /\ cliResult.ok => ExitedWith(0)

\* the part of C14 about processes that end with an exit code
C14_RunFollowsExitCode ==
    (Called /\ cliFunction \in RunFunctions /\ procEnd.exited) =>
        IF procEnd.code # 0
        THEN ~cliResult.ok /\ cliResult.message = ErrorMessage("", CapturedOutput)
        ELSE cliResult.ok

\* a run function succeeds for a process that was killed by a signal
C14_Witness ==
    /\ Called
    /\ cliFunction = "runDelete"
    /\ ~procEnd.exited
    /\ procEnd.stderr = "sandbox: failed"
    /\ cliResult.ok

ReadFunctions == {"fetchConfig", "fetchStatus"}

\* the message of the parse failure of a read function
ParseFailure(fn) ==
    ErrorMessage(IF fn = "fetchConfig" THEN "Failed to parse sandbox config JSON: "
                 ELSE "Failed to parse sandbox status JSON: ",
                 CapturedOutput)

\* C15 (as amended): fetchConfig and fetchStatus never consult the exit
\* code: however the process ends, they succeed when stdout parses as a JSON
\* value other than null, and otherwise fail with the parse error carrying
\* stderr, or stdout when stderr is empty.
C15_ReadsIgnoreExitCode ==
    (Called /\ cliFunction \in ReadFunctions) =>
        LET doc == JSONParse(procEnd.stdout)
        IN IF doc.json /\ doc.type # "null"
           THEN cliResult.ok
           ELSE ~cliResult.ok /\ cliResult.message = ParseFailure(cliFunction)

\* C15 as stated: success whenever stdout parses as JSON
C15_SucceedsIffStdoutParses ==
    (Called /\ cliFunction \in ReadFunctions) =>
        IF JSONParse(procEnd.stdout).json
        THEN cliResult.ok
        ELSE ~cliResult.ok /\ cliResult.message = ParseFailure(cliFunction)

\* a status fetch succeeds although the process exited with code 1
C15_Witness ==
    /\ Called
    /\ cliFunction = "fetchStatus"
    /\ ExitedWith(1)
    /\ procEnd.stdout = "{\"changes\":[]}"
    /\ procEnd.stderr = "sandbox: failed"
    /\ cliResult = Returned(J("array", <<>>))

\* C16: fetchConfig fails, with an error carrying the captured stderr or
\* stdout, if the process exits with a code other than 0.
C16_ConfigFailsOnNonZeroExit ==
    (Called /\ cliFunction = "fetchConfig" /\ procEnd.exited /\ procEnd.code # 0) =>
        /\ ~cliResult.ok
        /\ cliResult.message.text = CapturedOutput

\* fetchConfig returns a configuration although the process exited with 1
C16_Witness ==
    /\ Called
    /\ cliFunction = "fetchConfig"
    /\ ExitedWith(1)
    /\ procEnd.stdout = "{}"
    /\ procEnd.stderr = "sandbox: failed"
    /\ cliResult = Returned([type |-> "config", list |-> <<Undefined, Undefined>>])

\* C17: fetchStatus returns the empty list whenever stdout is valid JSON
\* that has no changes array, and the changes array, in the reported order,
\* when there is one.
C17_StatusReturnsChangesOrEmpty ==
    (Called /\ cliFunction = "fetchStatus" /\ JSONParse(procEnd.stdout).json) =>
        LET doc == JSONParse(procEnd.stdout)
        IN IF doc.changes.type = "array"
           THEN cliResult = Returned(J("array", doc.changes.list))
           ELSE cliResult = Returned(J("array", <<>>))

\* the part of C17 about documents that are not null and whose changes
\* member is absent, null or an array
C17_StatusOfExpectedDocuments ==
    (/\ Called
     /\ cliFunction = "fetchStatus"
     /\ JSONParse(procEnd.stdout).json
     /\ JSONParse(procEnd.stdout).type # "null"
     /\ JSONParse(procEnd.stdout).changes.type \in {"undefined", "null", "array"}) =>
        LET doc == JSONParse(procEnd.stdout)
        IN IF doc.changes.type = "array"
           THEN cliResult = Returned(J("array", doc.changes.list))
           ELSE cliResult = Returned(J("array", <<>>))

\* fetchStatus returns the number 5 as the list of changes
C17_Witness ==
    /\ Called
    /\ cliFunction = "fetchStatus"
    /\ ExitedWith(0)
    /\ procEnd.stdout = "{\"changes\":5}"
    /\ procEnd.stderr = ""
    /\ cliResult = Returned(J("number", <<>>))

----------------------------------------------------------------------------
(* Properties of handleCliError *)

\* the hint stands in the shown message after the original text
HintAppended(hint) ==
    \E i \in (Len(errText) + 1)..(Len(errShown) - Len(hint) + 1) :
        SubSeq(errShown, i, i + Len(hint) - 1) = hint

\* C18 (as amended): the message shown always begins with the original error
\* text; a text that matches the permission/setuid pattern is followed by
\* the setuid installation hint and nothing else; a text that matches the
\* 'not found'/ENOENT pattern and not the permission/setuid pattern is
\* followed by the hint at the sandbox.binaryPath setting and nothing else;
\* any other text is shown as it is.
C18_FriendlyMessage ==
    errShown # Undefined =>
        /\ StartsWith(errShown, errText)
        /\ MatchesPermission(errText) => errShown = errText \o SetuidHint
        /\ (MatchesNotFound(errText) /\ ~MatchesPermission(errText))
              => errShown = errText \o BinaryPathHint
        /\ (~MatchesNotFound(errText) /\ ~MatchesPermission(errText))
              => errShown = errText

\* C18 as stated: every text that matches a pattern gets that pattern's hint
C18_EveryMatchGetsItsHint ==
    errShown # Undefined =>
        /\ StartsWith(errShown, errText)
        /\ MatchesPermission(errText) => HintAppended(SetuidHint)
        /\ MatchesNotFound(errText) => HintAppended(BinaryPathHint)

\* a text that matches both patterns is shown with the setuid hint only
C18_Witness ==
    /\ errText = <<"s", "u", "d", "o", ":", " ", "N", "o", "t", " ", "f", "o", "u", "n", "d">>
    /\ MatchesPermission(errText)
    /\ MatchesNotFound(errText)
    /\ errShown = errText \o SetuidHint
    /\ ~HintAppended(BinaryPathHint)

----------------------------------------------------------------------------
(* Properties of the tree provider when the status query fails *)

\* getChildren called fetchStatus and the call failed
C19_FetchFailed == fetched # <<>> /\ statusFails

\* C19: whenever fetchStatus fails, for the single-folder root and for an
\* expanded workspace-folder node alike, getChildren returns exactly one
\* node: not collapsible, of operation 'error', labelled with the failure
\* message; no indicator, no Actions node and no group node with it.
C19_StatusFailureIsOneErrorNode ==
    C19_FetchFailed =>
        /\ element.op \in {"root", "workspace"}
        /\ Len(children) = 1
        /\ children[1].collapsibleState = "None"
        /\ children[1].label = Text(StatusErrorMessage)
        /\ children[1].op = "error"
        /\ children[1].children = NoChildren
        /\ ~C8_IndicatorShown
        /\ \A i \in 1..Len(children) :
              /\ children[i].op # "actions"
              /\ children[i].label[1] # "group"

\* the failure under an expanded workspace-folder node, overlay flags set
C19_Witness ==
    /\ C19_FetchFailed
    /\ element.op = "workspace"
    /\ Len(workspaceFolders) = 2
    /\ inOverlayRoot
    /\ hasOriginalWorkspace
    /\ children = <<ErrorNode(StatusErrorMessage)>>

----------------------------------------------------------------------------
(* Properties of the argument vectors *)

\* a setting that is set and has a character other than the blank
C20_NonBlank(s) == s # Undefined /\ \E i \in 1..Len(s) : s[i] # " "

RECURSIVE C20_Flagged(_, _)
\* flag x for each x of the list, in list order
C20_Flagged(flag, list) ==
    IF list = <<>> THEN <<>>
    ELSE <<Lit(flag), Str(Head(list))>> \o C20_Flagged(flag, Tail(list))

\* the words of each subcommand; the patterns follow accept, reject and diff
C20_Subcommand ==
    [fetchConfig |-> <<"config", "--json", "name", "storage_dir", "upper_cwd", "overlay_cwd">>,
     fetchStatus |-> <<"status", "--json">>,
     runAccept |-> <<"accept">>,
     runReject |-> <<"reject">>,
     runDiff |-> <<"diff">>,
     spawnDiffStream |-> <<"diff">>,
     runSync |-> <<"sync">>,
     runStop |-> <<"stop">>,
     runDelete |-> <<"delete", "-y">>]

C20_SubcommandPart ==
    [i \in 1..Len(C20_Subcommand[cliFunction]) |-> Lit(C20_Subcommand[cliFunction][i])]
    \o [i \in 1..Len(cliPatterns) |-> Str(cliPatterns[i])]

\* the flags for the name, the network, the binds and the masks
C20_NamePart ==
    IF C20_NonBlank(settings.name) THEN <<Lit("--name"), Str(settings.name)>> ELSE <<>>

C20_NetPart == IF settings.net = "host" THEN <<Lit("--net=host")>> ELSE <<>>

C20_BindPart == C20_Flagged("--bind", SelectSeq(settings.bind, C20_NonBlank))

C20_MaskPart == C20_Flagged("--mask", SelectSeq(settings.mask, C20_NonBlank))

\* C20 (as amended): for every settings value, the argument vector of every
\* call is, in this order: --name <name> when the name is not blank,
\* --net=host when net is 'host', --no-default-binds when noDefaultBinds is
\* set, --bind <b> for each non-blank bind in list order, --mask <m> for
\* each non-blank mask in list order, --ignored when ignored is set, then
\* the subcommand and its arguments; so it is a function of the settings.
C20_ArgumentVector ==
    Called =>
        argv = C20_NamePart
               \o C20_NetPart
               \o (IF settings.noDefaultBinds THEN <<Lit("--no-default-binds")>> ELSE <<>>)
               \o C20_BindPart
               \o C20_MaskPart
               \o (IF settings.ignored THEN <<Lit("--ignored")>> ELSE <<>>)
               \o C20_SubcommandPart

\* C20 as stated: --no-default-binds and --ignored are always in the vector
C20_SwitchesInEveryVector ==
    Called =>
        argv = C20_NamePart
               \o C20_NetPart
               \o <<Lit("--no-default-binds")>>
               \o C20_BindPart
               \o C20_MaskPart
               \o <<Lit("--ignored")>>
               \o C20_SubcommandPart

\* a vector with every kind of flag, a blank bind and an empty mask skipped
C20_Witness ==
    /\ settings = Settings(<<" ", "n">>, "host", TRUE, <<<<" ">>, <<"c">>>>,
                           <<<<"m">>, <<>>>>, FALSE)
    /\ cliFunction = "runAccept"
    /\ cliPatterns = <<P_w_a, P_w_b>>
    /\ argv = <<Lit("--name"), Str(<<" ", "n">>), Lit("--net=host"),
                Lit("--no-default-binds"), Lit("--bind"), Str(<<"c">>),
                Lit("--mask"), Str(<<"m">>), Lit("accept"), Str(P_w_a), Str(P_w_b)>>

----------------------------------------------------------------------------
(* Properties of the tree provider in a multi-root workspace *)

\* the node of the i-th workspace folder
C21_FolderNode(i) ==
    /\ i \in 1..Len(children)
    /\ children[i].label = Text(workspaceFolders[i].name)
    /\ children[i].collapsibleState = "Collapsed"
    /\ children[i].targetPath = workspaceFolders[i].path
    /\ children[i].op = "workspace"

----------------------------------------------------------------------------
(* Properties of sandbox.delete *)

\* the handler of delete has done something since its confirmation
C22_DeleteActed == running.cmd = "delete" /\ (trace # <<>> \/ argv # <<>>)

\* C22: the delete subcommand is started only after the user has chosen
\* 'Delete' in the modal confirmation; when the confirmation is dismissed,
\* the handler ends with no process started and no refresh fired.
C22_DeleteOnlyWhenConfirmed ==
    /\ [](C22_DeleteActed => confirm = "Delete")
    /\ []((running.cmd = "delete" /\ confirm \notin {"none", "Delete"}) =>
             /\ running.pc = "idle"
             /\ trace = <<>>
             /\ argv = <<>>)
    /\ [][(running.pc = "showWarningMessage" /\ confirm' # "Delete") =>
             /\ refreshes' = refreshes
             /\ running'.pc = "idle"]_vars
    /\ [][(running'.cmd = "delete" /\ running'.pc = "execFile" /\ running.pc # "execFile") =>
             /\ running.pc = "showWarningMessage"
             /\ confirm' = "Delete"
             /\ argv' = <<Lit("delete"), Lit("-y")>>]_vars

\* the confirmation was dismissed and nothing was done
C22_Witness ==
    /\ running.cmd = "delete"
    /\ running.pc = "idle"
    /\ confirm = "undefined"
    /\ trace = <<>>
    /\ argv = <<>>
    /\ refreshes = 0

----------------------------------------------------------------------------
(* Properties of the folder nodes of a hierarchy *)

RECURSIVE C23_FolderNodes(_)
\* the folder nodes among the nodes and below them
C23_FolderNodes(nodes) ==
    UNION { IF nodes[i].op = "folder"
            THEN {nodes[i]} \cup C23_FolderNodes(nodes[i].children)
            ELSE {} : i \in 1..Len(nodes) }

RECURSIVE C23_LeafDestinations(_)
\* the destinations of the change leaves among the nodes and below them
C23_LeafDestinations(nodes) ==
    UNION { IF nodes[i].op = "folder"
            THEN C23_LeafDestinations(nodes[i].children)
            ELSE {nodes[i].targetPath} : i \in 1..Len(nodes) }

\* the destinations of the entries that the diff pattern matcher selects
\* for the pattern list a click on the node passes to sandbox.diff
C23_Selected(node) ==
    LET sel == filterChangesByPatterns(changes, node.command.arguments[1])
    IN {sel[i].destination : i \in 1..Len(sel)}

\* C23: for every folder node of a hierarchy, the pattern folderPath/**
\* that a click passes to sandbox.diff selects, under the diff pattern
\* matcher, exactly the change entries that are leaves below the node.
C23_FolderPatternSelectsSubtree ==
    "buildDirectoryHierarchy" \in applied =>
        \A n \in C23_FolderNodes(hierarchy) :
            /\ n.command.command = "sandbox.diff"
            /\ n.command.arguments = <<<<n.targetPath \o <<"/", "*", "*">>>>>>
            /\ C23_Selected(n) = C23_LeafDestinations(n.children)

\* the folder b of cwd /w holds the leaf /w/b/a, and b/** selects nothing
C23_Witness ==
    /\ "buildDirectoryHierarchy" \in applied
    /\ cwd = P_w
    /\ changes = <<ChangeEntry("create", P_w_b_a, Undefined, Undefined, Undefined)>>
    /\ Len(hierarchy) = 1
    /\ hierarchy[1].targetPath = <<"b">>
    /\ C23_LeafDestinations(hierarchy[1].children) = {P_w_b_a}
    /\ C23_Selected(hierarchy[1]) = {}

\* ==========================================================================
\* Terminals and the status bar item (extension.ts, activate)
\* ==========================================================================

N_Sandbox == <<"S", "a", "n", "d", "b", "o", "x">>
N_bash == <<"b", "a", "s", "h">>
N_my_SANDBOX == <<"m", "y", " ", "S", "A", "N", "D", "B", "O", "X">>

\* the names a terminal can carry
TerminalNames == {N_Sandbox, N_bash, N_my_SANDBOX}

\* String.prototype.toLowerCase
toLowerCase(s) == FoldAll(s)

\* String.prototype.includes
includes(s, text) ==
    \E i \in 1..(Len(s) - Len(text) + 1) : SubSeq(s, i, i + Len(text) - 1) = text

\* (t.name || '').toLowerCase().includes('sandbox')
NameIncludesSandbox(name) ==
    includes(toLowerCase(name), <<"s", "a", "n", "d", "b", "o", "x">>)

\* isSandboxTerminal(term), for the tracked set and the terminals given
isSandboxTerminal(term, tracked, terms) ==
    IF term = 0 THEN FALSE
    ELSE IF term \in tracked THEN TRUE
    ELSE NameIncludesSandbox(terms[term].name)

\* refreshStatusVisibility(): status.show() or status.hide()
refreshStatusVisibility(active, tracked, terms) == isSandboxTerminal(active, tracked, terms)

\* what vscode.window.activeTerminal can be when a handler reads it
ActiveChoices(terms) == {0} \cup {t \in TerminalIds : terms[t].state # "none"}

\* activation: terminals may already be open, none of them tracked; the
\* visibility is computed once
TermInit ==
    /\ terminals \in [TerminalIds -> {NoTerminal} \cup {Terminal("open", n) : n \in TerminalNames}]
    /\ activeTerminal \in {0} \cup {t \in TerminalIds : terminals[t].state = "open"}
    /\ sandboxTerminals = {}
    /\ statusVisible = refreshStatusVisibility(activeTerminal, sandboxTerminals, terminals)
    /\ changes = <<>>
    /\ ProviderIdle
    /\ HelpersIdle
    /\ DiffIdle
    /\ GlobIdle
    /\ OrchIdle
    /\ GateIdle
    /\ CmdIdle
    /\ DiffCmdIdle

\* the sandbox.enter command: openSandboxTerminal creates the terminal named
\* 'Sandbox' and shows it; the handler tracks it and refreshes.  The host
\* may or may not have made it the active terminal by then.
EnterSandbox(t, active) ==
    /\ terminals[t].state = "none"
    /\ active \in {activeTerminal, t}
    /\ terminals' = [terminals EXCEPT ![t] = Terminal("created", N_Sandbox)]
    /\ activeTerminal' = active
    /\ sandboxTerminals' = sandboxTerminals \cup {t}
    /\ statusVisible' = refreshStatusVisibility(activeTerminal', sandboxTerminals', terminals')
    /\ UNCHANGED outsideTerm

\* onDidOpenTerminal(t): for a terminal the command created, or a new one
TerminalOpened(t, name, active) ==
    /\ \/ terminals[t].state = "created" /\ name = terminals[t].name
       \/ terminals[t].state = "none"
    /\ terminals' = [terminals EXCEPT ![t] = Terminal("open", name)]
    /\ active \in ActiveChoices(terminals')
    /\ activeTerminal' = active
    /\ sandboxTerminals' =
           IF NameIncludesSandbox(name) THEN sandboxTerminals \cup {t} ELSE sandboxTerminals
    /\ statusVisible' = refreshStatusVisibility(activeTerminal', sandboxTerminals', terminals')
    /\ UNCHANGED outsideTerm

\* a close handler that leaves the set alone
TerminalClosed_KeepsTracked(t, active) ==
    /\ terminals[t].state = "open"
    /\ terminals' = [terminals EXCEPT ![t].state = "closed"]
    /\ active \in ActiveChoices(terminals')
    /\ activeTerminal' = active
    /\ sandboxTerminals' = sandboxTerminals
    /\ statusVisible' = refreshStatusVisibility(activeTerminal', sandboxTerminals', terminals')
    /\ UNCHANGED outsideTerm

\* onDidCloseTerminal(t)
TerminalClosed(t, active) ==
    /\ terminals[t].state = "open"
    /\ terminals' = [terminals EXCEPT ![t].state = "closed"]
    /\ active \in ActiveChoices(terminals')
    /\ activeTerminal' = active
    /\ sandboxTerminals' = sandboxTerminals \ {t}
    /\ statusVisible' = refreshStatusVisibility(activeTerminal', sandboxTerminals', terminals')
    /\ UNCHANGED outsideTerm

\* onDidChangeActiveTerminal
ActiveTerminalChanged(active) ==
    /\ active \in ActiveChoices(terminals)
    /\ active # activeTerminal
    /\ activeTerminal' = active
    /\ statusVisible' = refreshStatusVisibility(activeTerminal', sandboxTerminals, terminals)
    /\ UNCHANGED <<terminals, sandboxTerminals, outsideTerm>>

\* the user renames an open terminal; the extension subscribes to no event
\* for it
RenameTerminal(t, name) ==
    /\ terminals[t].state = "open"
    /\ name # terminals[t].name
    /\ terminals' = [terminals EXCEPT ![t].name = name]
    /\ UNCHANGED <<activeTerminal, sandboxTerminals, statusVisible, outsideTerm>>

TermEvent ==
    \/ \E t \in TerminalIds, a \in {0} \cup TerminalIds : EnterSandbox(t, a)
    \/ \E t \in TerminalIds, n \in TerminalNames, a \in {0} \cup TerminalIds :
           TerminalOpened(t, n, a)
    \/ \E t \in TerminalIds, a \in {0} \cup TerminalIds : TerminalClosed(t, a)
    \/ \E a \in {0} \cup TerminalIds : ActiveTerminalChanged(a)

TermNext ==
    \/ TermEvent
    \/ \E t \in TerminalIds, n \in TerminalNames : RenameTerminal(t, n)

SpecTerm == TermInit /\ [][TermNext]_vars

\* ---- C24 ----
\* C24: after every terminal event (opened, closed, active terminal changed)
\* and after Enter Sandbox, the status bar item is visible exactly when the
\* active terminal is a sandbox terminal (tracked, or named with 'sandbox' in
\* any case); and no closed terminal is ever in the tracked set.
C24_StatusFollowsActiveTerminal ==
    /\ [][TermEvent =>
            statusVisible' =
                (/\ activeTerminal' # 0
                 /\ \/ activeTerminal' \in sandboxTerminals'
                    \/ ContainsIgnoringCase(terminals'[activeTerminal'].name, N_Sandbox))]_vars
    /\ [](\A t \in sandboxTerminals : terminals[t].state # "closed")

\* a tracked terminal has been closed, and the item is visible for an active
\* terminal that is not tracked but named with 'sandbox'
C24_Witness ==
    /\ \E t \in TerminalIds :
           terminals[t].state = "closed" /\ terminals[t].name = N_Sandbox
    /\ sandboxTerminals = {}
    /\ activeTerminal # 0
    /\ terminals[activeTerminal].state = "open"
    /\ terminals[activeTerminal].name = N_my_SANDBOX
    /\ statusVisible

----------------------------------------------------------------------------
\* ---- C25 ----

\* the suspended invocations of 'Use Overlay in Explorer' that wait at pc
C25_Waiting(q, pc) ==
    Cardinality({i \in 1..Len(q) :
                    q[i].cmd = "useOverlayInExplorer" /\ q[i].pc = pc})

C25_Invocations(q) ==
    Cardinality({i \in 1..Len(q) : q[i].cmd = "useOverlayInExplorer"})

\* a step in which an invocation of the command gets the answer of
\* fetchConfig while the extension keeps running
C25_ConfigAnswered ==
    /\ C25_Waiting(inflight', "fetchConfig") < C25_Waiting(inflight, "fetchConfig")
    /\ C25_Invocations(inflight') = C25_Invocations(inflight)

\* a step in which an invocation reaches handleCliError
C25_ErrorShown ==
    C25_Waiting(inflight', "showErrorMessage") > C25_Waiting(inflight, "showErrorMessage")

\* a step in which an invocation writes the mapping
C25_MappingWritten ==
    C25_Waiting(inflight', "rememberOverlayMapping")
        > C25_Waiting(inflight, "rememberOverlayMapping")

\* a step in which an invocation calls vscode.openFolder
C25_FolderOpened ==
    C25_Waiting(inflight', "openFolder") > C25_Waiting(inflight, "openFolder")

\* C25 (as the code has it): when 'Use Overlay in Explorer' gets no overlay
\* path from the config (neither overlay_cwd nor upper_cwd, or the fetch
\* fails) it shows an error, writes no mapping and opens no folder.  When
\* the config reports an overlay path and the window has a workspace root,
\* the mapping overlay -> root is written in a step that opens nothing, and
\* the folder is opened in a later step that writes nothing; when the window
\* has no workspace root, the folder is opened and no mapping is written.
C25_UseOverlayOutcome ==
    [][/\ (C25_ConfigAnswered /\ ~Truthy(OverlayOf(toolConfig[activationCwd])))
             => C25_ErrorShown
       /\ C25_ErrorShown
             => /\ shown' = "error"
                /\ globalState' = globalState
                /\ reload' = reload
                /\ ~C25_MappingWritten
                /\ ~C25_FolderOpened
       /\ (C25_ConfigAnswered /\ ~C25_ErrorShown)
             => IF Truthy(getWorkspaceCwd(workspaceFolders))
                THEN /\ C25_MappingWritten
                     /\ globalState'[OverlayOf(toolConfig[activationCwd])]
                            = getWorkspaceCwd(workspaceFolders)
                     /\ reload' = reload
                ELSE /\ C25_FolderOpened
                     /\ globalState' = globalState
                     /\ reload' = OverlayOf(toolConfig[activationCwd])
       /\ C25_FolderOpened
             => /\ globalState' = globalState
                /\ Truthy(reload')
                /\ \/ C25_Waiting(inflight', "rememberOverlayMapping")
                         < C25_Waiting(inflight, "rememberOverlayMapping")
                   \/ C25_ConfigAnswered /\ ~Truthy(getWorkspaceCwd(workspaceFolders))]_vars

\* C25 (as stated): ..., and whenever the command opens the folder, it has
\* written the mapping before.
C25_MappingBeforeEveryOpen ==
    [][C25_FolderOpened =>
          C25_Waiting(inflight', "rememberOverlayMapping")
             < C25_Waiting(inflight, "rememberOverlayMapping")]_vars

\* one invocation shows the error it got, another has written the mapping
\* /o -> /w and has asked the host to open /o
C25_Witness ==
    /\ workspaceFolders = <<Folder("w", P_w)>>
    /\ shown = "error"
    /\ globalState[P_o] = P_w
    /\ reload = P_o
    /\ C25_Waiting(inflight, "showErrorMessage") = 1
    /\ C25_Waiting(inflight, "openFolder") = 1

----------------------------------------------------------------------------
\* ---- C26 ----

\* the path segments under which the i-th entry of the list is inserted
C26_Parts(i) == PathParts(RelativePath(changes[i], cwd))

C26_IsPrefix(p, q) == Len(p) <= Len(q) /\ SubSeq(q, 1, Len(p)) = p

\* no later entry of the list needs a segment of the i-th entry's path in
\* another role, or the same leaf: no later path is a prefix of this path,
\* and this path is no prefix of a later one
C26_Survives(i) ==
    /\ C26_Parts(i) # <<>>
    /\ \A j \in (i + 1)..Len(changes) :
          C26_Parts(j) # <<>> =>
             /\ ~C26_IsPrefix(C26_Parts(j), C26_Parts(i))
             /\ ~C26_IsPrefix(C26_Parts(i), C26_Parts(j))

RECURSIVE C26_Leaves(_, _)
\* the leaves of a Map of the hierarchy, each with its path of segments
C26_Leaves(map, prefix) ==
    UNION { IF map[name].kind = "dir"
            THEN C26_Leaves(map[name].map, Append(prefix, name))
            ELSE {<<Append(prefix, name), map[name].change>>} : name \in DOMAIN map }

\* C26: when a path segment is needed both as a leaf and as an interior node
\* (or twice as a leaf), the later insertion wins.  The leaves of the
\* resulting hierarchy are exactly the entries for which no later entry
\* collides: a leaf inserted after a directory of the same name removes the
\* directory with every entry below it, a directory inserted after a leaf
\* removes that leaf, and the replaced entries are absent from the nodes.
C26_LaterInsertionWins ==
    "buildDirectoryHierarchy" \in applied =>
        LET survivors == {i \in 1..Len(changes) : C26_Survives(i)}
        IN /\ C26_Leaves(root, <<>>) = {<<C26_Parts(i), changes[i]>> : i \in survivors}
           /\ C23_LeafDestinations(hierarchy) = {changes[i].destination : i \in survivors}
           /\ \A i, j \in 1..Len(changes) :
                 (/\ i < j
                  /\ C26_Parts(i) # C26_Parts(j)
                  /\ \/ C26_IsPrefix(C26_Parts(j), C26_Parts(i))
                     \/ C26_IsPrefix(C26_Parts(i), C26_Parts(j))
                  /\ \A k \in (j + 1)..Len(changes) : changes[k] # changes[i])
                    => <<C26_Parts(i), changes[i]>> \notin C26_Leaves(root, <<>>)

\* directory b (for b/a), then leaf b, then directory b again (for b/a, as a
\* modification): only the last entry is in the hierarchy
C26_Witness ==
    /\ "buildDirectoryHierarchy" \in applied
    /\ cwd = P_w
    /\ Len(changes) = 3
    /\ changes[1].destination = P_w_b_a
    /\ changes[2].destination = P_w_b
    /\ changes[3].destination = P_w_b_a
    /\ changes[2].operation = "create"
    /\ Len(hierarchy) = 1
    /\ hierarchy[1].op = "folder"
    /\ Len(hierarchy[1].children) = 1
    /\ C26_Leaves(root, <<>>) = {<< << <<"b">>, <<"a">> >>, changes[3] >>}

----------------------------------------------------------------------------
\* ---- C27 ----

\* the context updates in flight that wait at pc
C27_UpdatesAt(q, pc) == {i \in 1..Len(q) : q[i].cmd = "update" /\ q[i].pc = pc}

\* no context update is in flight
C27_AllFinished(q) == \A i \in 1..Len(q) : q[i].cmd # "update"

----------------------------------------------------------------------------
\* ---- C28 ----

\* C28: sandbox.accept and sandbox.reject never start the external CLI with
\* an empty pattern list: whenever one of them has spawned the process, its
\* pattern list has at least one pattern and no pattern is empty, and the
\* argument vector ends with those patterns.
C28_NeverSpawnsWithoutPattern ==
    (/\ running.cmd \in {"accept", "reject"}
     /\ trace # <<>>
     /\ trace[1] = "spawn")
       => /\ running.patterns # <<>>
          /\ \A i \in 1..Len(running.patterns) : running.patterns[i] # <<>>
          /\ argv # <<Lit(running.cmd)>>

----------------------------------------------------------------------------
\* ---- C29 ----

RECURSIVE C29_LeafCount(_)
\* the number of change leaves among the nodes and below them
C29_LeafCount(nodes) ==
    IF nodes = <<>> THEN 0
    ELSE (IF Head(nodes).op = "folder" THEN C29_LeafCount(Head(nodes).children) ELSE 1)
         + C29_LeafCount(Tail(nodes))

\* C29: for every operation group node that getChildren returns, the number
\* of change leaves in the group's directory hierarchy equals the count in
\* the node's label `op (n)`, the number of entries of the group.
C29_LeavesMatchLabel ==
    \A i \in 1..Len(children) :
        children[i].label[1] = "group" =>
            C29_LeafCount(children[i].children) = children[i].label[3]

\* ==========================================================================
\* The sandbox.diff command (extension.ts, lines 577-621)
\* ==========================================================================

P_w_glob == P_w \o <<"/", "*", "*">>

\* the argument sandbox.diff is invoked with: no array (command palette or
\* context menu), the [] of a node without target path, the path of a leaf,
\* or a glob
DiffCommandArgs ==
    { [array |-> FALSE, list |-> <<>>],
      [array |-> TRUE, list |-> <<>>],
      [array |-> TRUE, list |-> <<P_w_a>>],
      [array |-> TRUE, list |-> <<P_w_glob>>] }

RECURSIVE Masked(_, _, _)
\* the items of a list that a selection ticks, from the i-th on, in list order
Masked(items, mask, i) ==
    IF i > Len(items) THEN <<>>
    ELSE (IF mask[i] THEN <<items[i]>> ELSE <<>>) \o Masked(items, mask, i + 1)

\* what showQuickPick({canPickMany: true}) resolves to: undefined when it is
\* cancelled, or the ticked items
QuickPicks(items) ==
    {[defined |-> FALSE, list |-> <<>>]}
        \cup {[defined |-> TRUE, list |-> Masked(items, mask, 1)] :
                  mask \in [1..Len(items) -> BOOLEAN]}

DiffCmdInit ==
    /\ diffRun = NoDiffRun
    /\ changes \in StatusLists
    /\ ProviderIdle
    /\ HelpersIdle
    /\ DiffIdle
    /\ GlobIdle
    /\ OrchIdle
    /\ GateIdle
    /\ CmdIdle
    /\ TermIdle

\* streamTextualDiff(patterns, cwd): the output channel is shown and
\* spawnDiffStream spawns `sandbox diff <patterns>`
streamTextualDiff(run) == [run EXCEPT !.streams = @ + 1, !.pc = "done"]

\* the handler from ensurePatterns on, for a pattern list
DiffWithPatterns(patterns) ==
    diffRun' = DiffRun("fetchStatus", patterns, <<>>, <<>>, FALSE, 0, 0)

\* sandbox.diff is invoked: ensurePatterns takes an array of strings as it
\* is and asks for input otherwise
DiffInvoke(arg) ==
    /\ diffRun.pc \in {"idle", "done"}
    /\ IF arg.array
       THEN DiffWithPatterns(arg.list)
       ELSE diffRun' = DiffRun("showInputBox", <<>>, <<>>, <<>>, FALSE, 0, 0)
    /\ UNCHANGED <<provVars, gateVars, outsideDiffCmd>>

\* the input box closes: without input the handler returns
DiffInputGiven(input) ==
    /\ diffRun.pc = "showInputBox"
    /\ LET patterns == PatternsOfInput(input)
       IN IF patterns.defined
          THEN DiffWithPatterns(patterns.list)
          ELSE diffRun' = NoDiffRun
    /\ UNCHANGED <<provVars, gateVars, outsideDiffCmd>>

\* fetchStatus(cwd) returns the status list or throws; the matching changes
\* are filtered, and with none, or in the catch, the textual diff is streamed
DiffStatus(ok) ==
    /\ diffRun.pc = "fetchStatus"
    /\ IF ~ok
       THEN diffRun' = streamTextualDiff(diffRun)
       ELSE LET matching == filterChangesByPatterns(changes, diffRun.patterns)
            IN IF Len(matching) = 0
               THEN diffRun' = streamTextualDiff(diffRun)
               ELSE IF Len(matching) > 1
                    THEN diffRun' = [diffRun EXCEPT !.pc = "showQuickPick",
                                                    !.matching = matching]
                    ELSE diffRun' = [diffRun EXCEPT !.pc = "openDiffForChange",
                                                    !.matching = matching,
                                                    !.selected = matching]
    /\ UNCHANGED <<provVars, gateVars, outsideDiffCmd>>

\* the process of the status query cannot be spawned: no close event, the
\* promise of execFile stays pending
DiffStatusSpawnFailed ==
    /\ diffRun.pc = "fetchStatus"
    /\ diffRun' = [diffRun EXCEPT !.pc = "pending"]
    /\ UNCHANGED <<provVars, gateVars, outsideDiffCmd>>

\* the picker closes: cancelled or nothing ticked streams the textual diff
DiffPicked(picks) ==
    /\ diffRun.pc = "showQuickPick"
    /\ picks \in QuickPicks(diffRun.matching)
    /\ IF ~picks.defined \/ Len(picks.list) = 0
       THEN diffRun' = streamTextualDiff(diffRun)
       ELSE diffRun' = [diffRun EXCEPT !.pc = "openDiffForChange", !.selected = picks.list]
    /\ UNCHANGED <<provVars, gateVars, outsideDiffCmd>>

\* a loop that streams the textual diff when the last diff could not be
\* opened
DiffOpened_LastDecides(ok) ==
    /\ diffRun.pc = "openDiffForChange"
    /\ LET after == [diffRun EXCEPT !.selected = Tail(@),
                                    !.openedAny = @ \/ ok,
                                    !.opened = IF ok THEN @ + 1 ELSE @]
       IN IF after.selected # <<>>
          THEN diffRun' = after
          ELSE IF ~ok
               THEN diffRun' = streamTextualDiff(after)
               ELSE diffRun' = [after EXCEPT !.pc = "done"]
    /\ UNCHANGED <<provVars, gateVars, outsideDiffCmd>>

\* openDiffForChange(c) resolves for the next selected change: true when
\* vscode.diff was executed, false when anything threw; after the last one
\* the textual diff is streamed if none was opened
DiffOpened(ok) ==
    /\ diffRun.pc = "openDiffForChange"
    /\ LET after == [diffRun EXCEPT !.selected = Tail(@),
                                    !.openedAny = @ \/ ok,
                                    !.opened = IF ok THEN @ + 1 ELSE @]
       IN IF after.selected # <<>>
          THEN diffRun' = after
          ELSE IF ~after.openedAny
               THEN diffRun' = streamTextualDiff(after)
               ELSE diffRun' = [after EXCEPT !.pc = "done"]
    /\ UNCHANGED <<provVars, gateVars, outsideDiffCmd>>

DiffCmdNext ==
    \/ \E arg \in DiffCommandArgs : DiffInvoke(arg)
    \/ \E input \in InputTexts : DiffInputGiven(input)
    \/ \E ok \in BOOLEAN : DiffStatus(ok)
    \/ DiffStatusSpawnFailed
    \/ \E picks \in QuickPicks(diffRun.matching) : DiffPicked(picks)
    \/ \E ok \in BOOLEAN : DiffOpened(ok)

SpecDiffCmd == DiffCmdInit /\ [][DiffCmdNext]_vars

\* the spawned status process closes, the host resolves openDiffForChange,
\* and the user closes the picker at some time
DiffCmdFairness ==
    /\ WF_vars(\E ok \in BOOLEAN : DiffStatus(ok))
    /\ WF_vars(\E picks \in QuickPicks(diffRun.matching) : DiffPicked(picks))
    /\ WF_vars(\E ok \in BOOLEAN : DiffOpened(ok))

SpecDiffCmdLive == SpecDiffCmd /\ DiffCmdFairness

\* ---- C30 ----

\* the invocation has a pattern list and has not returned
C30_Running == diffRun.pc \in {"fetchStatus", "showQuickPick", "openDiffForChange"}

====
